---------------------------- MODULE Spec2Model ----------------------------
(***************************************************************************)
(* A model of the GDPR retrieval pipeline of AI-Judge:                     *)
(*   data/build_gdpr_corpus.py        parse_articles, iter_paragraph_chunks *)
(*   data/build_gdpr_vector_store.py  load_chunks, build_vector_store       *)
(*   gdpr_knowledge_base.py           GDPRKnowledgeBase                     *)
(*   gdpr_judge.py                    GDPRJudge                             *)
(* Text is a sequence of one-character strings, so that strip, split,      *)
(* upper/lower and the regular expressions are computed, not assumed.      *)
(* Python's 0-based list indices are 1-based here.                         *)
(***************************************************************************)
EXTENDS Integers, Sequences, FiniteSets, TLC

VARIABLES
    lines,            \* parse_articles: raw_text split at "\n"
    i,                \* parse_articles: index of the outer scan (1-based)
    current_chapter,  \* parse_articles: active chapter context or None
    current_section,  \* parse_articles: active section context or None
    articles,         \* parse_articles: Articles extracted so far
    chunks,           \* main: chunks of all articles (chunk_iterables)
    pc,               \* position of the corpus build
    chunk_file,       \* gdpr_chunks.jsonl: its lines, or Absent
    index_file,       \* gdpr_chunks_index.json, or Absent
    matrix_file,      \* gdpr_tfidf.npz, or Absent
    vectorizer_file,  \* gdpr_vectorizer.joblib, or Absent
    bpc,              \* position of build_gdpr_vector_store.main
    b_chunks,         \* build_vector_store: chunks
    b_matrix,         \* build_vector_store: matrix
    b_vectorizer,     \* build_vector_store: vectorizer
    kb,               \* the GDPRKnowledgeBase instance, or how its construction ended
    rpc,              \* position of the retrieve call
    query,            \* retrieve: query
    top_k,            \* retrieve: top_k
    min_score,        \* retrieve: min_score, in hundredths
    query_vec,        \* retrieve: query_vec
    similarities,     \* retrieve: similarities, in hundredths
    ranked_indices,   \* retrieve: ranked_indices
    examined,         \* retrieve: iterations of the candidate loop started
    results,          \* retrieve: results
    other,            \* the frame of a second retrieve call on the same instance
    jpc,              \* GDPRJudge: position of __init__ / analyze_gdpr_compliance
    knowledge_base,   \* GDPRJudge: self.knowledge_base
    retrieved_passages, \* analyze_gdpr_compliance: retrieved_passages
    response,         \* analyze_gdpr_compliance: what client.generate gave
    analysis,         \* analyze_gdpr_compliance: the LegalAnalysis returned
    events,           \* GDPRJudge: the calls made and messages logged, in order
    scenario,         \* analyze_gdpr_compliance: scenario
    legal_precedents, \* GDPRJudge: relevance_score of each of self.legal_precedents
    precedents,       \* the LegalAnalysis returned: precedents, as references into
                      \* self.legal_precedents (positions)
    reply             \* web_ui.analyze: the precedents of the JSON reply

pvars == <<lines, i, current_chapter, current_section, articles, chunks, pc>>

dvars == <<chunk_file, index_file, matrix_file, vectorizer_file>>

bvars == <<bpc, b_chunks, b_matrix, b_vectorizer>>

qvars == <<rpc, query, top_k, min_score, query_vec, similarities, ranked_indices,
           examined, results>>

jvars == <<jpc, knowledge_base, retrieved_passages, response, analysis, events,
           scenario, legal_precedents, precedents, reply>>

rvars == <<dvars, bvars, kb, qvars, other, jvars>>

vars == <<pvars, rvars>>

(***************************************************************************)
(* Bounds of the model.                                                    *)
(***************************************************************************)
MaxLines == 4
MaxOddLines == 4
MaxFairLines == 3
MaxDocLines == 6
MaxBody == 5
MaxFileLines == 3
MaxTopK == 2
MaxPassages == 2

(***************************************************************************)
(* Characters and Python's string methods.                                 *)
(***************************************************************************)
\* Python's None; no text is equal to it (texts hold one-character strings)
None == <<"<None>">>

\* a file that does not exist
Absent == [exists |-> FALSE]

\* a file that a failed write left truncated
Torn == [exists |-> TRUE, torn |-> TRUE]

\* the content of a file that exists
File(data) == [exists |-> TRUE, data |-> data]

\* a variable that holds no value (yet), and one that holds x
Unset == [set |-> FALSE]

Value(x) == [set |-> TRUE, v |-> x]

SeqsUpTo(S, n) == UNION {[1..m -> S] : m \in 0..n}

\* the k-th smallest element of a set of numbers
Kth(S, k) == CHOOSE h \in S : Cardinality({m \in S : m <= h}) = k

LowerCase ==
    <<"a","b","c","d","e","f","g","h","i","j","k","l","m",
      "n","o","p","q","r","s","t","u","v","w","x","y","z">>

UpperCase ==
    <<"A","B","C","D","E","F","G","H","I","J","K","L","M",
      "N","O","P","Q","R","S","T","U","V","W","X","Y","Z">>

DigitChars == <<"0","1","2","3","4","5","6","7","8","9">>

Range(s) == {s[k] : k \in DOMAIN s}

Letters == Range(LowerCase) \cup Range(UpperCase)

Digits == Range(DigitChars)

\* the characters str.strip(), str.split() and the regex class \s treat as space
SpaceChars == {" ", "\t", "\n", "\r"}

UpperChar(c) ==
    IF c \in Range(LowerCase)
    THEN UpperCase[CHOOSE k \in DOMAIN LowerCase : LowerCase[k] = c]
    ELSE c

LowerChar(c) ==
    IF c \in Range(UpperCase)
    THEN LowerCase[CHOOSE k \in DOMAIN UpperCase : UpperCase[k] = c]
    ELSE c

\* A text argument that a definition uses more than once is bound through a
\* local function over a one-element domain (or a quantifier over a
\* one-element set), which evaluates it once.

\* str.upper()
Upper(s) ==
    LET upper[x \in {s}] == [k \in DOMAIN x |-> UpperChar(x[k])]
    IN  upper[s]

\* str.lower()
Lower(s) == [k \in DOMAIN s |-> LowerChar(s[k])]

\* str.replace(old, new) for single characters
Replace(s, old, new) == [k \in DOMAIN s |-> IF s[k] = old THEN new ELSE s[k]]

\* the number of consecutive characters of s, from index from on, that are in S
\* (a greedy regex repetition of a character class)
Span(s, from, S) ==
    LET span[x \in {s}, p \in {from}] ==
            CHOOSE n \in 0..(Len(x) + 1 - p) :
                /\ \A k \in p..(p + n - 1) : x[k] \in S
                /\ (p + n > Len(x) \/ x[p + n] \notin S)
    IN  span[s, from]

\* str.strip()
Strip(s) ==
    LET strip[x \in {s}] ==
            LET keep == {k \in DOMAIN x : x[k] \notin SpaceChars}
            IN  IF keep = {} THEN <<>>
                ELSE SubSeq(x, CHOOSE k \in keep : \A m \in keep : k <= m,
                               CHOOSE k \in keep : \A m \in keep : k >= m)
    IN  strip[s]

\* str.split(): the whitespace-separated words
RECURSIVE SplitWords(_)
SplitWords(s) ==
    LET split[x \in {s}] ==
            LET from == 1 + Span(x, 1, SpaceChars)
            IN  IF from > Len(x) THEN <<>>
                ELSE LET n == CHOOSE m \in 1..(Len(x) + 1 - from) :
                                  /\ \A k \in from..(from + m - 1) : x[k] \notin SpaceChars
                                  /\ (from + m > Len(x) \/ x[from + m] \in SpaceChars)
                     IN  <<SubSeq(x, from, from + n - 1)>>
                             \o SplitWords(SubSeq(x, from + n, Len(x)))
    IN  split[s]

\* sep.join(parts)
RECURSIVE Join(_, _)
Join(parts, sep) ==
    LET join[p \in {parts}] ==
            IF p = <<>> THEN <<>>
            ELSE IF Len(p) = 1 THEN p[1]
            ELSE p[1] \o sep \o Join(Tail(p), sep)
    IN  join[parts]

\* str(n) for n >= 0
RECURSIVE Str(_)
Str(n) ==
    IF n < 10 THEN <<DigitChars[n + 1]>>
    ELSE Str(n \div 10) \o <<DigitChars[(n % 10) + 1]>>

\* _normalize
Normalize(line) == Join(SplitWords(Strip(line)), <<" ">>)

(***************************************************************************)
(* The three heading patterns (re.IGNORECASE, anchored at both ends).      *)
(***************************************************************************)
\* s starts with the lower-case keyword kw, ignoring case
StartsWithIC(s, kw) ==
    /\ Len(s) >= Len(kw)
    /\ \A k \in DOMAIN kw : LowerChar(s[k]) = kw[k]

\* ^<kw>\s+[cls]+<one optional letter>?\s*$
MatchHeading(s, kw, cls, optLetter) ==
    \E x \in {s} :
        /\ StartsWithIC(x, kw)
        /\ \E ws \in {Span(x, Len(kw) + 1, SpaceChars)} :
           \E n \in {Span(x, Len(kw) + 1 + ws, cls)} :
               LET p3 == Len(kw) + 1 + ws + n
                   l  == IF optLetter /\ p3 <= Len(x) /\ x[p3] \in Letters
                         THEN 1 ELSE 0
                   p4 == p3 + l
               IN  /\ ws >= 1
                   /\ n >= 1
                   /\ p4 + Span(x, p4, SpaceChars) = Len(x) + 1

RomanChars == {"I","V","X","L","C","i","v","x","l","c"}

\* variant: the Article pattern asks for the keyword only
ArticlePatternKeywordOnly(s) ==
    StartsWithIC(s, <<"a","r","t","i","c","l","e">>)

\* ARTICLE_HEADER_PATTERN.match
ARTICLE_HEADER_PATTERN(s) ==
    MatchHeading(s, <<"a","r","t","i","c","l","e">>, Digits, TRUE)

\* CHAPTER_PATTERN.match
CHAPTER_PATTERN(s) ==
    MatchHeading(s, <<"c","h","a","p","t","e","r">>, RomanChars, FALSE)

\* SECTION_PATTERN.match
SECTION_PATTERN(s) ==
    MatchHeading(s, <<"s","e","c","t","i","o","n">>, RomanChars \cup Digits, FALSE)

\* _is_heading
IsHeading(line) ==
    LET s == Strip(line)
    IN  ARTICLE_HEADER_PATTERN(s) \/ CHAPTER_PATTERN(s) \/ SECTION_PATTERN(s)

(***************************************************************************)
(* parse_articles: one action per branch of the outer while loop.          *)
(***************************************************************************)
\* while j < len(lines) and not lines[j].strip(): j += 1
RECURSIVE SkipBlank(_, _)
SkipBlank(ls, j) ==
    IF j <= Len(ls) /\ Strip(ls[j]) = <<>> THEN SkipBlank(ls, j + 1) ELSE j

\* variant: the lookahead takes any non-blank line as the title, headings too
TitleNoHeadingCheck(ls, h) ==
    LET j == SkipBlank(ls, h + 1)
    IN  IF j <= Len(ls) /\ Strip(ls[j]) # <<>>
        THEN [title |-> Normalize(Strip(ls[j])), at |-> j, found |-> TRUE]
        ELSE [title |-> <<>>, at |-> j, found |-> FALSE]

\* the lookahead after a heading at index h: the title ("" when the next
\* non-blank line is a heading or there is none) and the index of the title line
TitleLookahead(ls, h) ==
    LET j == SkipBlank(ls, h + 1)
    IN  IF j <= Len(ls) /\ Strip(ls[j]) # <<>> /\ ~IsHeading(Strip(ls[j]))
        THEN [title |-> Normalize(Strip(ls[j])), at |-> j, found |-> TRUE]
        ELSE [title |-> <<>>, at |-> j, found |-> FALSE]

\* variant: the label keeps the case of the heading line
ContextLabelKeepsCase(ls, h) ==
    LET t == TitleLookahead(ls, h)
    IN  Normalize(Strip(ls[h]))
            \o (IF t.title # <<>> THEN <<" ", "-", " ">> \o t.title ELSE <<>>)

\* the context label of a Chapter or Section heading line
ContextLabel(ls, h) ==
    LET t == TitleLookahead(ls, h)
    IN  Upper(Normalize(Strip(ls[h])))
            \o (IF t.title # <<>> THEN <<" ", "-", " ">> \o t.title ELSE <<>>)

\* variant: a blank line ends the body
RECURSIVE BodyFromStopsAtBlank(_, _)
BodyFromStopsAtBlank(ls, j) ==
    IF j > Len(ls) THEN [body |-> <<>>, at |-> j]
    ELSE IF Strip(ls[j]) = <<>> THEN [body |-> <<>>, at |-> j]
    ELSE IF IsHeading(Strip(ls[j])) THEN [body |-> <<>>, at |-> j]
    ELSE LET rest == BodyFromStopsAtBlank(ls, j + 1)
         IN  [body |-> <<Normalize(ls[j])>> \o rest.body, at |-> rest.at]

\* the body loop: the normalized non-blank lines from j up to the next heading
RECURSIVE BodyFrom(_, _)
BodyFrom(ls, j) ==
    IF j > Len(ls) THEN [body |-> <<>>, at |-> j]
    ELSE IF Strip(ls[j]) = <<>> THEN BodyFrom(ls, j + 1)
    ELSE IF IsHeading(Strip(ls[j])) THEN [body |-> <<>>, at |-> j]
    ELSE LET rest == BodyFrom(ls, j + 1)
         IN  [body |-> <<Normalize(ls[j])>> \o rest.body, at |-> rest.at]

Scanning == pc = "scan" /\ i <= Len(lines)

ScanBlank ==
    /\ Scanning
    /\ Strip(lines[i]) = <<>>
    /\ i' = i + 1
    /\ UNCHANGED <<lines, current_chapter, current_section, articles, chunks, pc>>
    /\ UNCHANGED rvars

\* variant: a Chapter heading that leaves the section context in place
ScanChapterKeepsSection ==
    /\ Scanning
    /\ CHAPTER_PATTERN(Strip(lines[i]))
    /\ current_chapter' = ContextLabel(lines, i)
    /\ i' = (IF TitleLookahead(lines, i).found THEN TitleLookahead(lines, i).at ELSE i) + 1
    /\ UNCHANGED <<lines, current_section, articles, chunks, pc>>
    /\ UNCHANGED rvars

ScanChapter ==
    /\ Scanning
    /\ CHAPTER_PATTERN(Strip(lines[i]))
    /\ current_chapter' = ContextLabel(lines, i)
    /\ current_section' = None
    /\ i' = (IF TitleLookahead(lines, i).found THEN TitleLookahead(lines, i).at ELSE i) + 1
    /\ UNCHANGED <<lines, articles, chunks, pc>>
    /\ UNCHANGED rvars

ScanSection ==
    /\ Scanning
    /\ ~CHAPTER_PATTERN(Strip(lines[i]))
    /\ SECTION_PATTERN(Strip(lines[i]))
    /\ current_section' = ContextLabel(lines, i)
    /\ i' = (IF TitleLookahead(lines, i).found THEN TitleLookahead(lines, i).at ELSE i) + 1
    /\ UNCHANGED <<lines, current_chapter, articles, chunks, pc>>
    /\ UNCHANGED rvars

ScanArticle ==
    /\ Scanning
    /\ ~CHAPTER_PATTERN(Strip(lines[i]))
    /\ ~SECTION_PATTERN(Strip(lines[i]))
    /\ ARTICLE_HEADER_PATTERN(Strip(lines[i]))
    /\ IF Len(SplitWords(Strip(lines[i]))) < 2
       THEN \* line.split()[1] raises IndexError
            /\ pc' = "raised"
            /\ UNCHANGED <<articles, i>>
       ELSE LET t == TitleLookahead(lines, i)
                b == BodyFrom(lines, IF t.found THEN t.at + 1 ELSE t.at)
            IN  /\ articles' = Append(articles,
                       [article |-> <<"A","r","t","i","c","l","e"," ">>
                                        \o Upper(SplitWords(Strip(lines[i]))[2]),
                        title   |-> t.title,
                        chapter |-> current_chapter,
                        section |-> current_section,
                        text    |-> Join(b.body, <<"\n">>)])
                /\ i' = b.at
                /\ pc' = pc
    /\ UNCHANGED <<lines, current_chapter, current_section, chunks>>
    /\ UNCHANGED rvars

\* variant: a line that is no heading leaves the scan index where it is
ScanOtherStays ==
    /\ Scanning
    /\ Strip(lines[i]) # <<>>
    /\ ~IsHeading(lines[i])
    /\ UNCHANGED <<lines, i, current_chapter, current_section, articles, chunks, pc>>
    /\ UNCHANGED rvars

ScanOther ==
    /\ Scanning
    /\ Strip(lines[i]) # <<>>
    /\ ~IsHeading(lines[i])
    /\ i' = i + 1
    /\ UNCHANGED <<lines, current_chapter, current_section, articles, chunks, pc>>
    /\ UNCHANGED rvars

\* the loop condition fails: return articles
ParseReturn ==
    /\ pc = "scan"
    /\ i > Len(lines)
    /\ pc' = "parsed"
    /\ UNCHANGED <<lines, i, current_chapter, current_section, articles, chunks>>
    /\ UNCHANGED rvars

(***************************************************************************)
(* iter_paragraph_chunks                                                   *)
(***************************************************************************)
\* a match of \n(?=\d+\.) at index p of text
IsBoundary(text, p) ==
    /\ text[p] = "\n"
    /\ LET d == Span(text, p + 1, Digits)
       IN  d >= 1 /\ p + 1 + d <= Len(text) /\ text[p + 1 + d] = "."

\* variant: the text is split at every newline
RECURSIVE ReSplitEveryNewline(_)
ReSplitEveryNewline(text) ==
    LET B == {p \in DOMAIN text : text[p] = "\n"}
    IN  IF B = {} THEN <<text>>
        ELSE LET p == CHOOSE q \in B : \A r \in B : q <= r
             IN  <<SubSeq(text, 1, p - 1)>>
                     \o ReSplitEveryNewline(SubSeq(text, p + 1, Len(text)))

\* re.split(r"\n(?=\d+\.)", text)
RECURSIVE ReSplit(_)
ReSplit(text) ==
    LET B == {p \in DOMAIN text : IsBoundary(text, p)}
    IN  IF B = {} THEN <<text>>
        ELSE LET p == CHOOSE q \in B : \A r \in B : q <= r
             IN  <<SubSeq(text, 1, p - 1)>> \o ReSplit(SubSeq(text, p + 1, Len(text)))

\* f"{article.article.replace(' ', '_').lower()}_p{idx}"
ChunkId(label, idx) == Lower(Replace(label, " ", "_")) \o <<"_", "p">> \o Str(idx)

MakeChunk(a, idx, value) ==
    [article  |-> a.article,
     title    |-> a.title,
     chapter  |-> a.chapter,
     section  |-> a.section,
     chunk_id |-> ChunkId(a.article, idx),
     text     |-> value]

\* for idx, part in enumerate(parts, start=1): ... yield Chunk(...)
RECURSIVE ChunksFrom(_, _, _)
ChunksFrom(a, parts, idx) ==
    IF idx > Len(parts) THEN <<>>
    ELSE LET value == Strip(parts[idx])
         IN  (IF value = <<>> THEN <<>> ELSE <<MakeChunk(a, idx, value)>>)
                 \o ChunksFrom(a, parts, idx + 1)

\* variant: number the segments after the empty ones are dropped
RECURSIVE ChunksRenumbered(_, _, _, _)
ChunksRenumbered(a, parts, idx, n) ==
    IF idx > Len(parts) THEN <<>>
    ELSE LET value == Strip(parts[idx])
         IN  IF value = <<>> THEN ChunksRenumbered(a, parts, idx + 1, n)
             ELSE <<MakeChunk(a, n, value)>> \o ChunksRenumbered(a, parts, idx + 1, n + 1)

IterRenumbered(a) ==
    IF a.text = <<>> THEN <<>> ELSE ChunksRenumbered(a, ReSplit(a.text), 1, 1)

iter_paragraph_chunks(a) ==
    IF a.text = <<>> THEN <<>> ELSE ChunksFrom(a, ReSplit(a.text), 1)

\* main: for article in articles: chunk_iterables.extend(iter_paragraph_chunks(article))
RECURSIVE AllChunks(_)
AllChunks(as) ==
    IF as = <<>> THEN <<>>
    ELSE iter_paragraph_chunks(Head(as)) \o AllChunks(Tail(as))

ChunkArticles ==
    /\ pc = "parsed"
    /\ chunks' = AllChunks(articles)
    /\ pc' = "chunked"
    /\ UNCHANGED <<lines, i, current_chapter, current_section, articles>>
    /\ UNCHANGED rvars

(***************************************************************************)
(* Inputs.                                                                 *)
(***************************************************************************)
\* no second retrieve call, no GDPRJudge
InitJudgeIdle ==
    /\ other = Unset
    /\ jpc = "none"
    /\ knowledge_base = Unset
    /\ retrieved_passages = <<>>
    /\ response = Unset
    /\ analysis = Unset
    /\ events = <<>>
    /\ scenario = None
    /\ legal_precedents = <<>>
    /\ precedents = <<>>
    /\ reply = <<>>

\* the vector store and the engine before anything ran
InitStoreIdle ==
    /\ chunk_file = Absent
    /\ index_file = Absent
    /\ matrix_file = Absent
    /\ vectorizer_file = Absent
    /\ bpc = "idle"
    /\ b_chunks = Unset
    /\ b_matrix = Unset
    /\ b_vectorizer = Unset
    /\ kb = Unset
    /\ rpc = "idle"
    /\ query = None
    /\ top_k = 0
    /\ min_score = 0
    /\ query_vec = Unset
    /\ similarities = Unset
    /\ ranked_indices = Unset
    /\ examined = 0
    /\ results = <<>>
    /\ InitJudgeIdle

L_Blank    == <<>>
L_Space    == <<" ">>
L_Chapter  == <<"C","h","a","p","t","e","r"," ","I">>
L_Section  == <<"s","e","c","t","i","o","n"," "," ","2"," ">>
L_Article5 == <<"A","r","t","i","c","l","e"," ","5">>
L_Article6 == <<" ","a","r","t","i","c","l","e","\t","6","a">>
L_Text     == <<"T"," "," ","x">>
L_Para1    == <<"1","."," ","a">>
L_Para2    == <<"2",".","b">>

LineSet ==
    {L_Space, L_Chapter, L_Section, L_Article5, L_Article6,
     L_Text, L_Para1, L_Para2}

\* fewer kinds of line for the longer documents
InitParse ==
    /\ lines \in SeqsUpTo(LineSet, MaxLines)
                    \cup SeqsUpTo({L_Blank, L_Article5, L_Text, L_Para2}, MaxDocLines)
    /\ i = 1
    /\ current_chapter = None
    /\ current_section = None
    /\ articles = <<>>
    /\ chunks = <<>>
    /\ pc = "scan"
    /\ InitStoreIdle

NextParse ==
    \/ ScanBlank
    \/ ScanChapter
    \/ ScanSection
    \/ ScanArticle
    \/ ScanOther
    \/ ParseReturn
    \/ ChunkArticles

SpecParse == InitParse /\ [][NextParse]_vars

\* documents with lines that look like headings and match no pattern
\* ("Article" alone, "chapter 5")
OddLineSet ==
    {L_Space, L_Chapter, L_Section, L_Article5, L_Text,
     <<"A","r","t","i","c","l","e">>,
     <<"c","h","a","p","t","e","r"," ","5">>}

InitParseOdd ==
    /\ lines \in SeqsUpTo(OddLineSet, MaxOddLines)
    /\ i = 1
    /\ current_chapter = None
    /\ current_section = None
    /\ articles = <<>>
    /\ chunks = <<>>
    /\ pc = "scan"
    /\ InitStoreIdle

SpecParseOdd == InitParseOdd /\ [][NextParse]_vars

InitParseFair ==
    /\ lines \in SeqsUpTo(OddLineSet, MaxFairLines)
    /\ i = 1
    /\ current_chapter = None
    /\ current_section = None
    /\ articles = <<>>
    /\ chunks = <<>>
    /\ pc = "scan"
    /\ InitStoreIdle

\* the interpreter keeps running the loop: a step that can be taken is taken
SpecParseFair == InitParseFair /\ [][NextParse]_vars /\ WF_vars(NextParse)

\* one Article with an arbitrary body, for iter_paragraph_chunks alone
InitChunk ==
    /\ lines = <<>>
    /\ i = 1
    /\ current_chapter = None
    /\ current_section = None
    /\ \E body \in SeqsUpTo({"\n", " ", "1", ".", "a"}, MaxBody),
          label \in {<<"A","r","t","i","c","l","e"," ","5">>,
                     <<"A","r","t","i","c","l","e"," ","1","0","A">>},
          ch \in {None, <<"C","H","A","P","T","E","R"," ","I">>} :
          articles = <<[article |-> label, title |-> <<"T">>, chapter |-> ch,
                        section |-> None, text |-> body]>>
    /\ chunks = <<>>
    /\ pc = "parsed"
    /\ InitStoreIdle

NextChunk == ChunkArticles

SpecChunk == InitChunk /\ [][NextChunk]_vars

(***************************************************************************)
(* TfidfVectorizer(stop_words="english", ngram_range=(1, 2), min_df=1,     *)
(* max_df=0.95, lowercase=True) and cosine_similarity.  Weights are        *)
(* integers: idf in tenths, similarities in hundredths (rounded down).     *)
(***************************************************************************)
\* the characters of the token pattern's class \w
WordChars == Letters \cup Digits \cup {"_"}

\* the token pattern \b\w\w+\b: the runs of two or more word characters
RECURSIVE FindTokens(_)
FindTokens(s) ==
    IF s = <<>> THEN <<>>
    ELSE LET n == Span(s, 1, WordChars)
         IN  IF n = 0 THEN FindTokens(Tail(s))
             ELSE (IF n >= 2 THEN <<SubSeq(s, 1, n)>> ELSE <<>>)
                      \o FindTokens(SubSeq(s, n + 1, Len(s)))

\* the words of the "english" stop list that the modelled texts can hold
StopWords == {<<"o","f">>, <<"t","h","e">>, <<"a","n","d">>, <<"t","o">>}

\* lowercase, tokenize, drop the stop words
Tokenize(text) ==
    LET NotStop(t) == t \notin StopWords
    IN  SelectSeq(FindTokens(Lower(text)), NotStop)

\* the analyzer: the unigrams, then the bigrams of adjacent tokens
Analyze(text) ==
    LET toks == Tokenize(text)
    IN  toks \o [k \in 1..(Len(toks) - 1) |-> toks[k] \o <<" ">> \o toks[k + 1]]

\* the number of occurrences of term t in the sequence of terms
TermCount(terms, t) == Cardinality({k \in DOMAIN terms : terms[k] = t})

\* round(10 * (ln((1 + n) / (1 + df)) + 1)) at IdfTable[n][df]: smooth idf
IdfTable ==
    << <<10>>,
       <<14, 10>>,
       <<17, 13, 10>>,
       <<19, 15, 12, 10>>,
       <<21, 17, 14, 12, 10>>,
       <<23, 18, 16, 13, 12, 10>>,
       <<24, 20, 17, 15, 13, 11, 10>> >>

\* variant: each distinct text vectorized once
TextsDeduped(cs) ==
    LET first == {k \in DOMAIN cs : \A m \in 1..(k - 1) : cs[m].text # cs[k].text}
    IN  [j \in 1..Cardinality(first) |-> cs[Kth(first, j)].text]

\* texts = [chunk["text"] for chunk in chunks]
TextsOf(cs) == [k \in DOMAIN cs |-> cs[k].text]

\* the number of texts that hold term t
DocFreq(texts, t) ==
    Cardinality({k \in DOMAIN texts : t \in Range(Analyze(texts[k]))})

\* the terms kept by min_df = 1 and max_df = 0.95
KeptTerms(texts) ==
    {t \in UNION {Range(Analyze(texts[k])) : k \in DOMAIN texts} :
        /\ DocFreq(texts, t) >= 1
        /\ 100 * DocFreq(texts, t) <= 95 * Len(texts)}

\* fit raises ValueError: no term at all, max_df * n_docs < min_df, or no
\* term left after pruning
FitFails(texts) ==
    \/ UNION {Range(Analyze(texts[k])) : k \in DOMAIN texts} = {}
    \/ 95 * Len(texts) < 100
    \/ KeptTerms(texts) = {}

\* vectorizer.fit: the vocabulary and its idf weights
Fit(texts) ==
    [vocabulary |-> KeptTerms(texts),
     idf |-> [t \in KeptTerms(texts) |-> IdfTable[Len(texts)][DocFreq(texts, t)]]]

\* variant: add-one smoothing of the term counts
TransformRowSmoothed(v, text) ==
    [t \in v.vocabulary |-> (TermCount(Analyze(text), t) + 1) * v.idf[t]]

\* vectorizer.transform of one text: tf * idf on the fixed vocabulary (a term
\* outside the vocabulary has no dimension); the row is kept up to its
\* positive L2 scale, which cosine_similarity divides out again
TransformRow(v, text) ==
    [t \in v.vocabulary |-> TermCount(Analyze(text), t) * v.idf[t]]

\* vectorizer.fit_transform(texts): one row per text, in the order of texts
FitTransform(texts) ==
    [k \in DOMAIN texts |-> TransformRow(Fit(texts), texts[k])]

RECURSIVE SumOver(_, _)
SumOver(f, S) ==
    IF S = {} THEN 0
    ELSE LET t == CHOOSE u \in S : TRUE IN f[t] + SumOver(f, S \ {t})

\* the order of characters in terms (code points): space, digits, "_", letters
CharRank(c) ==
    CHOOSE r \in 1..38 : (<<" ">> \o DigitChars \o <<"_">> \o LowerCase)[r] = c

\* s < t as Python strings
RECURSIVE TermBefore(_, _)
TermBefore(s, t) ==
    IF t = <<>> THEN FALSE
    ELSE IF s = <<>> THEN TRUE
    ELSE IF Head(s) # Head(t) THEN CharRank(Head(s)) < CharRank(Head(t))
    ELSE TermBefore(Tail(s), Tail(t))

\* vocabulary_[t]: the column of term t, the terms being numbered in sorted
\* order (1-based)
ColumnOf(terms, t) == 1 + Cardinality({u \in terms : TermBefore(u, t)})

\* the term of column j
TermAt(terms, j) == CHOOSE t \in terms : ColumnOf(terms, t) = j

\* the number of columns of a row, and of a matrix
Columns(row) == Cardinality(DOMAIN row)

MatrixColumns(matrix) == IF matrix = <<>> THEN 0 ELSE Columns(matrix[1])

\* the dot product of two rows with as many columns, column by column (rows
\* over the same vocabulary have the same term in each column)
Dot(a, b) ==
    IF DOMAIN a = DOMAIN b
    THEN SumOver([t \in DOMAIN a |-> a[t] * b[t]], DOMAIN a)
    ELSE SumOver([t \in DOMAIN a |->
                     a[t] * b[TermAt(DOMAIN b, ColumnOf(DOMAIN a, t))]], DOMAIN a)

ISqrt(x) == CHOOSE r \in 0..100 : r * r <= x /\ x < (r + 1) * (r + 1)

\* cosine_similarity of one matrix row and the query vector, in hundredths
Cosine(row, qv) ==
    LET d == Dot(row, qv)
        nr == Dot(row, row)
        nq == Dot(qv, qv)
    IN  IF nr = 0 \/ nq = 0 THEN 0
        ELSE ISqrt((((d * 1000) \div nr) * ((d * 1000) \div nq)) \div 100)

\* cosine_similarity(self.matrix, query_vec).ravel()
CosineSimilarity(matrix, qv) == [r \in DOMAIN matrix |-> Cosine(matrix[r], qv)]

(***************************************************************************)
(* build_gdpr_vector_store: load_chunks, build_vector_store.               *)
(***************************************************************************)
\* json.dumps and json.loads of a chunk record or a list of them: the
\* document is kept as the value it denotes (strings and None round-trip)
JsonDumps(x) == [json |-> x]

JsonLoads(doc) == doc.json

\* an empty line of the chunk file
BlankLine == [blank |-> TRUE]

\* load_chunks, given that the file exists: the records of the non-blank lines
LoadChunks(file) ==
    LET NotBlank(l) == l # BlankLine
        kept == SelectSeq(file, NotBlank)
    IN  [k \in DOMAIN kept |-> JsonLoads(kept[k])]

BuildIdle == bpc \in {"idle", "done", "failed"}

\* main: load_chunks(), then build_vector_store up to fit_transform; an
\* exception (no chunk file, ValueError of fit) ends the build
BuildStart ==
    /\ bpc = "idle"
    /\ IF chunk_file = Absent \/ FitFails(TextsOf(LoadChunks(chunk_file.data)))
       THEN /\ bpc' = "failed"
            /\ UNCHANGED <<b_chunks, b_matrix, b_vectorizer>>
       ELSE /\ b_chunks' = Value(LoadChunks(chunk_file.data))
            /\ b_vectorizer' = Value(Fit(TextsOf(LoadChunks(chunk_file.data))))
            /\ b_matrix' = Value(FitTransform(TextsOf(LoadChunks(chunk_file.data))))
            /\ bpc' = "fitted"
    /\ UNCHANGED <<pvars, other, jvars, dvars, kb, qvars>>

\* INDEX_PATH.write_text(json.dumps(chunks, ...))
WriteIndex ==
    /\ bpc = "fitted"
    /\ index_file' = File(JsonDumps(b_chunks.v))
    /\ bpc' = "index_written"
    /\ UNCHANGED <<pvars, other, jvars, chunk_file, matrix_file, vectorizer_file,
                   b_chunks, b_matrix, b_vectorizer, kb, qvars>>

\* sparse.save_npz(MATRIX_PATH, matrix)
WriteMatrix ==
    /\ bpc = "index_written"
    /\ matrix_file' = File(b_matrix.v)
    /\ bpc' = "matrix_written"
    /\ UNCHANGED <<pvars, other, jvars, chunk_file, index_file, vectorizer_file,
                   b_chunks, b_matrix, b_vectorizer, kb, qvars>>

\* joblib.dump(vectorizer, VECTORIZER_PATH)
WriteVectorizer ==
    /\ bpc = "matrix_written"
    /\ vectorizer_file' = File(b_vectorizer.v)
    /\ bpc' = "done"
    /\ UNCHANGED <<pvars, other, jvars, chunk_file, index_file, matrix_file,
                   b_chunks, b_matrix, b_vectorizer, kb, qvars>>

\* a write raises (disk full, no permission): nothing in build_vector_store
\* or main catches it, so the build ends there; the file being written is as
\* it was (the open failed) or truncated (the write failed)
WriteFails ==
    /\ bpc \in {"fitted", "index_written", "matrix_written"}
    /\ \E torn \in BOOLEAN :
          /\ index_file' = IF bpc = "fitted" /\ torn THEN Torn ELSE index_file
          /\ matrix_file' = IF bpc = "index_written" /\ torn THEN Torn ELSE matrix_file
          /\ vectorizer_file' = IF bpc = "matrix_written" /\ torn THEN Torn
                                ELSE vectorizer_file
    /\ bpc' = "failed"
    /\ UNCHANGED <<pvars, other, jvars, chunk_file, b_chunks, b_matrix, b_vectorizer,
                   kb, qvars>>

(***************************************************************************)
(* GDPRKnowledgeBase                                                       *)
(***************************************************************************)
\* the argument of the FileNotFoundError of __init__
MissingAssetsMessage ==
    <<"M","i","s","s","i","n","g"," ","G","D","P","R"," ","k","n","o","w",
      "l","e","d","g","e"," ","a","s","s","e","t","s","."," ","R","u","n",
      " ","d","a","t","a","/","b","u","i","l","d","_","g","d","p","r","_",
      "c","o","r","p","u","s",".","p","y"," ","a","n","d"," ","d","a","t",
      "a","/","b","u","i","l","d","_","g","d","p","r","_","v","e","c","t",
      "o","r","_","s","t","o","r","e",".","p","y"," ","f","i","r","s","t",
      ".">>

\* raise FileNotFoundError("Missing GDPR knowledge assets. ...")
MissingAssetsError ==
    [status |-> "FileNotFoundError", message |-> MissingAssetsMessage]

\* the names of the three files in data_dir
VectorizerName == <<"g","d","p","r","_","v","e","c","t","o","r","i","z","e","r",".","j","o","b","l","i","b">>

MatrixName == <<"g","d","p","r","_","t","f","i","d","f",".","n","p","z">>

IndexName == <<"g","d","p","r","_","c","h","u","n","k","s","_","i","n","d","e","x",".","j","s","o","n">>

\* open() of a path that does not exist, inside one of the three loads
NoSuchFile(name) ==
    [status |-> "FileNotFoundError",
     message |-> <<"[","E","r","r","n","o"," ","2","]"," ","N","o"," ","s","u","c","h"," ","f","i","l","e"," ">>
                 \o <<"o","r"," ","d","i","r","e","c","t","o","r","y",":"," ">>
                 \o name]

\* joblib.load, sparse.load_npz or json.loads raising on a truncated file
LoadError == [status |-> "LoadError"]

\* not a.exists() or not b.exists() or not c.exists()
AssetMissing ==
    vectorizer_file = Absent \/ matrix_file = Absent \/ index_file = Absent

\* __init__ run without interruption: FileNotFoundError when an asset is
\* missing, else the three loads in the order vectorizer, matrix, chunk index
Construct ==
    IF AssetMissing THEN MissingAssetsError
    ELSE IF Torn \in {vectorizer_file, matrix_file, index_file} THEN LoadError
    ELSE [status |-> "ok",
          vectorizer |-> vectorizer_file.data,
          matrix |-> matrix_file.data,
          chunks |-> JsonLoads(index_file.data)]

\* GDPRKnowledgeBase(), constructed by a caller
KBInit ==
    /\ kb = Unset
    /\ kb' = Construct
    /\ UNCHANGED <<pvars, other, jvars, dvars, bvars, qvars>>

\* variant: only the chunk index is tested for existence
KBCheckIndexOnly ==
    /\ kb = Unset
    /\ kb' = IF index_file = Absent THEN MissingAssetsError
             ELSE [status |-> "checked"]
    /\ UNCHANGED <<pvars, other, jvars, dvars, bvars, qvars>>

\* __init__ step by step, for a construction that runs while files change.
\* The three exists() tests:
KBCheck ==
    /\ kb = Unset
    /\ kb' = IF AssetMissing THEN MissingAssetsError ELSE [status |-> "checked"]
    /\ UNCHANGED <<pvars, other, jvars, dvars, bvars, qvars>>

Constructing(st) == kb # Unset /\ kb.status = st

\* self.vectorizer = joblib.load(self.vectorizer_path)
KBLoadVectorizer ==
    /\ Constructing("checked")
    /\ kb' = IF vectorizer_file = Absent THEN NoSuchFile(VectorizerName)
             ELSE IF vectorizer_file = Torn THEN LoadError
             ELSE [status |-> "vectorizer_loaded", vectorizer |-> vectorizer_file.data]
    /\ UNCHANGED <<pvars, other, jvars, dvars, bvars, qvars>>

\* self.matrix = sparse.load_npz(self.matrix_path)
KBLoadMatrix ==
    /\ Constructing("vectorizer_loaded")
    /\ kb' = IF matrix_file = Absent THEN NoSuchFile(MatrixName)
             ELSE IF matrix_file = Torn THEN LoadError
             ELSE [status |-> "matrix_loaded", vectorizer |-> kb.vectorizer,
                   matrix |-> matrix_file.data]
    /\ UNCHANGED <<pvars, other, jvars, dvars, bvars, qvars>>

\* self.chunks = json.loads(self.index_path.read_text(encoding="utf-8"))
KBLoadIndex ==
    /\ Constructing("matrix_loaded")
    /\ kb' = IF index_file = Absent THEN NoSuchFile(IndexName)
             ELSE IF index_file = Torn THEN LoadError
             ELSE [status |-> "ok", vectorizer |-> kb.vectorizer, matrix |-> kb.matrix,
                   chunks |-> JsonLoads(index_file.data)]
    /\ UNCHANGED <<pvars, other, jvars, dvars, bvars, qvars>>

\* the construction is over and its outcome dropped; the next one can start
KBDiscard ==
    /\ kb # Unset
    /\ kb.status \in {"ok", "FileNotFoundError", "LoadError"}
    /\ rpc = "idle"
    /\ kb' = Unset
    /\ UNCHANGED <<pvars, other, jvars, dvars, bvars, qvars>>

Loaded == kb # Unset /\ kb.status = "ok"

\* the permutations of the row indices 1..n
RowOrders(n) == {p \in [1..n -> 1..n] : \A a, b \in 1..n : a # b => p[a] # p[b]}

\* variant: the ranking without the [::-1] reversal
IsRankingAscending(p, sims) ==
    \A a, b \in DOMAIN p : a < b => sims[p[a]] <= sims[p[b]]

\* the orders similarities.argsort()[::-1] can give: the row indices by
\* descending similarity; the order among equal similarities is the sort
\* implementation's
IsRanking(p, sims) ==
    \A a, b \in DOMAIN p : a < b => sims[p[a]] >= sims[p[b]]

Rankings(sims) == {p \in RowOrders(Len(sims)) : IsRanking(p, sims)}

\* variant: the loop over all of ranked_indices
WindowNoCap(k, n) == n

\* the length of ranked_indices[: top_k * 2]
Window(k, n) == IF 2 * k < n THEN 2 * k ELSE n

\* RetrievalResult(chunk_id=chunk["chunk_id"], ..., score=score)
MakeResult(chunk, score) ==
    [chunk_id |-> chunk.chunk_id,
     article  |-> chunk.article,
     title    |-> chunk.title,
     chapter  |-> chunk.chapter,
     section  |-> chunk.section,
     text     |-> chunk.text,
     score    |-> score]

\* variant: retrieve without the blank-query return
RetrieveEncodesBlank(q, k, m) ==
    /\ Loaded
    /\ rpc = "idle"
    /\ query' = q
    /\ top_k' = k
    /\ min_score' = m
    /\ examined' = 0
    /\ results' = <<>>
    /\ LET qv == TransformRow(kb.vectorizer, q)
           sims == CosineSimilarity(kb.matrix, qv)
       IN  /\ query_vec' = Value(qv)
           /\ similarities' = Value(sims)
           /\ \E p \in Rankings(sims) : ranked_indices' = Value(p)
           /\ rpc' = "walk"
    /\ UNCHANGED <<pvars, other, jvars, dvars, bvars, kb>>

\* retrieve, up to the candidate loop; cosine_similarity raises ValueError
\* when the matrix and the query vector differ in their number of columns
RetrieveStart(q, k, m) ==
    /\ Loaded
    /\ rpc = "idle"
    /\ query' = q
    /\ top_k' = k
    /\ min_score' = m
    /\ examined' = 0
    /\ results' = <<>>
    /\ IF Strip(q) = <<>>
       THEN /\ rpc' = "returned"
            /\ UNCHANGED <<query_vec, similarities, ranked_indices>>
       ELSE LET qv == TransformRow(kb.vectorizer, q)
                sims == CosineSimilarity(kb.matrix, qv)
            IN  /\ query_vec' = Value(qv)
                /\ IF MatrixColumns(kb.matrix) # Columns(qv)
                   THEN /\ rpc' = "raised"
                        /\ UNCHANGED <<similarities, ranked_indices>>
                   ELSE /\ similarities' = Value(sims)
                        /\ \E p \in Rankings(sims) : ranked_indices' = Value(p)
                        /\ rpc' = "walk"
    /\ UNCHANGED <<pvars, other, jvars, dvars, bvars, kb>>

\* the candidate the loop is at
Candidate == ranked_indices.v[examined + 1]

InLoop == rpc = "walk" /\ examined < Window(top_k, Len(ranked_indices.v))

\* if score < min_score: continue
WalkSkip ==
    /\ InLoop
    /\ similarities.v[Candidate] < min_score
    /\ examined' = examined + 1
    /\ UNCHANGED <<pvars, other, jvars, dvars, bvars, kb, rpc, query, top_k, min_score, query_vec,
                   similarities, ranked_indices, results>>

\* variant: the threshold test is left out
WalkAcceptNoThreshold ==
    /\ InLoop
    /\ examined' = examined + 1
    /\ results' = Append(results,
                         MakeResult(kb.chunks[Candidate], similarities.v[Candidate]))
    /\ rpc' = IF Len(results) + 1 >= top_k THEN "returned" ELSE "walk"
    /\ UNCHANGED <<pvars, other, jvars, dvars, bvars, kb, query, top_k, min_score, query_vec,
                   similarities, ranked_indices>>

\* variant: the chunk is taken by loop position, not by row index
WalkAcceptByPosition ==
    /\ InLoop
    /\ similarities.v[Candidate] >= min_score
    /\ examined' = examined + 1
    /\ IF Candidate > Len(kb.chunks)
       THEN /\ rpc' = "raised"
            /\ UNCHANGED results
       ELSE /\ results' = Append(results,
                                 MakeResult(kb.chunks[examined + 1], similarities.v[Candidate]))
            /\ rpc' = IF Len(results) + 1 >= top_k THEN "returned" ELSE "walk"
    /\ UNCHANGED <<pvars, other, jvars, dvars, bvars, kb, query, top_k, min_score, query_vec,
                   similarities, ranked_indices>>

\* variant: the accepted chunk is taken out of self.chunks
WalkAcceptPopsChunk ==
    /\ InLoop
    /\ similarities.v[Candidate] >= min_score
    /\ examined' = examined + 1
    /\ IF Candidate > Len(kb.chunks)
       THEN /\ rpc' = "raised"
            /\ UNCHANGED <<results, kb>>
       ELSE /\ results' = Append(results,
                                 MakeResult(kb.chunks[Candidate], similarities.v[Candidate]))
            /\ kb' = [kb EXCEPT !.chunks =
                         SubSeq(kb.chunks, 1, Candidate - 1)
                             \o SubSeq(kb.chunks, Candidate + 1, Len(kb.chunks))]
            /\ rpc' = IF Len(results) + 1 >= top_k THEN "returned" ELSE "walk"
    /\ UNCHANGED <<pvars, other, jvars, dvars, bvars, query, top_k, min_score, query_vec,
                   similarities, ranked_indices>>

\* variant: the loop does not break when top_k results are there
WalkAcceptNoBreak ==
    /\ InLoop
    /\ similarities.v[Candidate] >= min_score
    /\ examined' = examined + 1
    /\ IF Candidate > Len(kb.chunks)
       THEN /\ rpc' = "raised"
            /\ UNCHANGED results
       ELSE /\ results' = Append(results,
                                 MakeResult(kb.chunks[Candidate], similarities.v[Candidate]))
            /\ rpc' = "walk"
    /\ UNCHANGED <<pvars, other, jvars, dvars, bvars, kb, query, top_k, min_score, query_vec,
                   similarities, ranked_indices>>

\* chunk = self.chunks[idx] (IndexError when the chunk list is shorter than the
\* matrix); results.append(...); if len(results) >= top_k: break
WalkAccept ==
    /\ InLoop
    /\ similarities.v[Candidate] >= min_score
    /\ examined' = examined + 1
    /\ IF Candidate > Len(kb.chunks)
       THEN /\ rpc' = "raised"
            /\ UNCHANGED results
       ELSE /\ results' = Append(results,
                                 MakeResult(kb.chunks[Candidate], similarities.v[Candidate]))
            /\ rpc' = IF Len(results) + 1 >= top_k THEN "returned" ELSE "walk"
    /\ UNCHANGED <<pvars, other, jvars, dvars, bvars, kb, query, top_k, min_score, query_vec,
                   similarities, ranked_indices>>

\* the slice is exhausted: return results
WalkEnd ==
    /\ rpc = "walk"
    /\ examined >= Window(top_k, Len(ranked_indices.v))
    /\ rpc' = "returned"
    /\ UNCHANGED <<pvars, other, jvars, dvars, bvars, kb, query, top_k, min_score, query_vec,
                   similarities, ranked_indices, examined, results>>

\* the call is over; its locals are gone and the next call can start
RetrieveDone ==
    /\ rpc \in {"returned", "raised"}
    /\ rpc' = "idle"
    /\ query' = None
    /\ top_k' = 0
    /\ min_score' = 0
    /\ query_vec' = Unset
    /\ similarities' = Unset
    /\ ranked_indices' = Unset
    /\ examined' = 0
    /\ results' = <<>>
    /\ UNCHANGED <<pvars, other, jvars, dvars, bvars, kb>>

\* the locals of the retrieve call that is running
Frame ==
    [rpc |-> rpc, query |-> query, top_k |-> top_k, min_score |-> min_score,
     query_vec |-> query_vec, similarities |-> similarities,
     ranked_indices |-> ranked_indices, examined |-> examined, results |-> results]

\* the locals of a call that has not started
IdleFrame ==
    [rpc |-> "idle", query |-> None, top_k |-> 0, min_score |-> 0,
     query_vec |-> Unset, similarities |-> Unset, ranked_indices |-> Unset,
     examined |-> 0, results |-> <<>>]

\* two threads call retrieve on one instance: the scheduler suspends the
\* running call and resumes the other; each call has its own locals, self is
\* shared (kb)
Switch ==
    /\ other # Unset
    /\ other' = Frame
    /\ rpc' = other.rpc
    /\ query' = other.query
    /\ top_k' = other.top_k
    /\ min_score' = other.min_score
    /\ query_vec' = other.query_vec
    /\ similarities' = other.similarities
    /\ ranked_indices' = other.ranked_indices
    /\ examined' = other.examined
    /\ results' = other.results
    /\ UNCHANGED <<pvars, jvars, dvars, bvars, kb>>

\* the texts of the modelled corpus and the queries put to it
T_AaBb == <<"a","a"," ","b","b">>
T_BbCc == <<"b","b"," ","c","c">>
T_AaOfAa == <<"A","a"," ","o","f"," ","a","a">>

TextSet == {T_AaBb, T_BbCc, T_AaOfAa}

Q_Empty == <<>>
Q_Spaces == <<" "," ">>
Q_Aa == <<"a","a">>
Q_AaCc == <<" ","A","a"," ","c","c">>
Q_Zz == <<"z","z">>

\* the chunk record on line k of the chunk file
ChunkRecord(k, text) ==
    [article  |-> <<"A","r","t","i","c","l","e"," ">> \o Str(k),
     title    |-> <<"T">> \o Str(k),
     chapter  |-> IF k % 2 = 0 THEN <<"C","H","A","P","T","E","R"," ","I">> ELSE None,
     section  |-> None,
     chunk_id |-> ChunkId(<<"A","r","t","i","c","l","e"," ">> \o Str(k), 1),
     text     |-> text]

\* chunk files: each line blank or the JSON document of a chunk
ChunkFiles ==
    {[k \in DOMAIN f |-> IF f[k] = <<>> THEN BlankLine
                         ELSE JsonDumps(ChunkRecord(k, f[k]))] :
        f \in SeqsUpTo(TextSet \cup {<<>>}, MaxFileLines)}

InitRetrieve ==
    /\ lines = <<>>
    /\ i = 1
    /\ current_chapter = None
    /\ current_section = None
    /\ articles = <<>>
    /\ chunks = <<>>
    /\ pc = "scan"
    /\ chunk_file \in {File(f) : f \in ChunkFiles} \cup {Absent}
    /\ index_file = Absent
    /\ matrix_file = Absent
    /\ vectorizer_file = Absent
    /\ bpc = "idle"
    /\ b_chunks = Unset
    /\ b_matrix = Unset
    /\ b_vectorizer = Unset
    /\ kb = Unset
    /\ rpc = "idle"
    /\ query = None
    /\ top_k = 0
    /\ min_score = 0
    /\ query_vec = Unset
    /\ similarities = Unset
    /\ ranked_indices = Unset
    /\ examined = 0
    /\ results = <<>>
    /\ InitJudgeIdle

\* a build, then the engine is constructed and queried: the engine is not
\* constructed while a build is writing
NextRetrieve ==
    \/ BuildStart
    \/ WriteIndex
    \/ WriteMatrix
    \/ WriteVectorizer
    \/ (BuildIdle /\ KBInit)
    \* min_score in hundredths: 0, the default 0.05, 0.5 and 1
    \/ \E q \in {Q_Empty, Q_Spaces, Q_Aa, Q_AaCc, Q_Zz}, k \in 1..MaxTopK, m \in {0, 5, 50, 100} :
          RetrieveStart(q, k, m)
    \/ WalkSkip
    \/ WalkAccept
    \/ WalkEnd
    \/ RetrieveDone

SpecRetrieve == InitRetrieve /\ [][NextRetrieve]_vars

\* the corpus was built again (build_gdpr_corpus.main wrote a new chunk file)
\* and build_gdpr_vector_store is run again
CorpusRebuilt(f) ==
    /\ bpc \in {"done", "failed"}
    /\ chunk_file' = File(f)
    /\ bpc' = "idle"
    /\ b_chunks' = Unset
    /\ b_matrix' = Unset
    /\ b_vectorizer' = Unset
    /\ UNCHANGED <<pvars, other, jvars, index_file, matrix_file, vectorizer_file,
                   kb, qvars>>

\* the chunk files of the builds that follow each other: two chunks, three
\* chunks, and one chunk (which fit_transform rejects)
BundleFiles ==
    {[k \in DOMAIN f |-> JsonDumps(ChunkRecord(k, f[k]))] :
        f \in {<<T_AaBb, T_BbCc>>, <<T_BbCc, T_AaBb, T_AaOfAa>>, <<T_AaBb>>}}

\* what one complete build of chunk file f leaves on disk
BundleOf(f) ==
    [index      |-> File(JsonDumps(LoadChunks(f))),
     matrix     |-> File(FitTransform(TextsOf(LoadChunks(f)))),
     vectorizer |-> File(Fit(TextsOf(LoadChunks(f))))]

\* the disk is empty or holds the bundle of an earlier complete build; a
\* build of the current chunk file is about to start
InitBundle ==
    /\ lines = <<>>
    /\ i = 1
    /\ current_chapter = None
    /\ current_section = None
    /\ articles = <<>>
    /\ chunks = <<>>
    /\ pc = "scan"
    /\ chunk_file \in {File(f) : f \in BundleFiles}
    /\ \/ /\ index_file = Absent
          /\ matrix_file = Absent
          /\ vectorizer_file = Absent
       \/ \E g \in {f \in BundleFiles : ~FitFails(TextsOf(LoadChunks(f)))} :
             /\ index_file = BundleOf(g).index
             /\ matrix_file = BundleOf(g).matrix
             /\ vectorizer_file = BundleOf(g).vectorizer
    /\ bpc = "idle"
    /\ b_chunks = Unset
    /\ b_matrix = Unset
    /\ b_vectorizer = Unset
    /\ kb = Unset
    /\ rpc = "idle"
    /\ query = None
    /\ top_k = 0
    /\ min_score = 0
    /\ query_vec = Unset
    /\ similarities = Unset
    /\ ranked_indices = Unset
    /\ examined = 0
    /\ results = <<>>
    /\ InitJudgeIdle

\* builds follow each other while engines are constructed and queried at
\* any moment
NextPublish ==
    \/ BuildStart
    \/ WriteIndex
    \/ WriteMatrix
    \/ WriteVectorizer
    \/ \E f \in BundleFiles : CorpusRebuilt(f)
    \/ KBCheck
    \/ KBLoadVectorizer
    \/ KBLoadMatrix
    \/ KBLoadIndex
    \/ KBDiscard
    \/ \E q \in {Q_Spaces, Q_Aa}, k \in 1..MaxTopK, m \in {0, 50} : RetrieveStart(q, k, m)
    \/ WalkSkip
    \/ WalkAccept
    \/ WalkEnd
    \/ RetrieveDone

SpecPublish == InitBundle /\ [][NextPublish]_vars

\* the same, and a write of a build may fail
NextBundle ==
    \/ NextPublish
    \/ WriteFails

SpecBundle == InitBundle /\ [][NextBundle]_vars

(***************************************************************************)
(* Properties of parse_articles and iter_paragraph_chunks.                 *)
(***************************************************************************)
ArticleLines == {k \in DOMAIN lines : ARTICLE_HEADER_PATTERN(Strip(lines[k]))}

ChapterLines == {k \in DOMAIN lines : CHAPTER_PATTERN(Strip(lines[k]))}

SectionLines == {k \in DOMAIN lines : SECTION_PATTERN(Strip(lines[k]))}

\* the last element of S before p, 0 if there is none
LastBefore(S, p) ==
    LET T == {k \in S : k < p}
    IN  IF T = {} THEN 0 ELSE CHOOSE k \in T : \A m \in T : m <= k

\* the chapter and section context a reader of the text sees at line p
CtxChapter(p) ==
    LET c == LastBefore(ChapterLines, p)
    IN  IF c = 0 THEN None ELSE ContextLabel(lines, c)

CtxSection(p) ==
    LET c == LastBefore(ChapterLines, p)
        s == LastBefore(SectionLines, p)
    IN  IF s = 0 \/ s < c THEN None ELSE ContextLabel(lines, s)

\* C1: parse_articles yields exactly one Article per line that matches the
\* Article heading pattern, in document order: at every point of the scan the
\* Articles are those of the Article heading lines before the scan index, so
\* no Article heading is swallowed as a title or as body text.
C1_OneArticlePerHeading ==
    LET seen == {h \in ArticleLines : h < i}
    IN  /\ Len(articles) = Cardinality(seen)
        /\ \A k \in DOMAIN articles :
               articles[k].article =
                   <<"A","r","t","i","c","l","e"," ">>
                       \o Upper(SplitWords(lines[Kth(ArticleLines, k)])[2])
        /\ (pc # "scan" => Len(articles) = Cardinality(ArticleLines))

\* an Article heading that directly follows another heading was parsed
C1_Witness ==
    /\ pc = "parsed"
    /\ Len(articles) >= 2
    /\ \E h \in ArticleLines : h > 1 /\ IsHeading(lines[h - 1])

\* C2: a Chapter heading sets the chapter and resets the section, a Section
\* heading changes the section only, and every Article carries the context
\* active at its heading line: throughout the scan the context is that of the
\* last Chapter heading before the scan index and of the last Section heading
\* after that Chapter heading, if any.
C2_ContextTracking ==
    /\ current_chapter = CtxChapter(i)
    /\ current_section = CtxSection(i)
    /\ \A k \in DOMAIN articles :
           /\ articles[k].chapter = CtxChapter(Kth(ArticleLines, k))
           /\ articles[k].section = CtxSection(Kth(ArticleLines, k))

\* an Article after a Section heading and then a Chapter heading has no section
C2_Witness ==
    /\ pc = "parsed"
    /\ \E k \in DOMAIN articles :
           LET h == Kth(ArticleLines, k)
           IN  /\ LastBefore(SectionLines, h) > 0
               /\ LastBefore(ChapterLines, h) > LastBefore(SectionLines, h)
               /\ articles[k].chapter # None
               /\ articles[k].section = None

\* C3: within one corpus build no two Chunks share a chunk_id (and so no two
\* share an (article, chunk_id) pair).
C3_UniqueChunkIds ==
    pc = "chunked" =>
        \A a, b \in DOMAIN chunks :
            a # b => /\ chunks[a].chunk_id # chunks[b].chunk_id
                     /\ <<chunks[a].article, chunks[a].chunk_id>>
                            # <<chunks[b].article, chunks[b].chunk_id>>

\* the body of the one Article of the chunking specification
TheBody == articles[1].text

\* the newlines of the body that are immediately followed by digits and a period
Boundaries ==
    {p \in DOMAIN TheBody :
        /\ TheBody[p] = "\n"
        /\ \E d \in 1..Len(TheBody) :
               /\ p + d + 1 <= Len(TheBody)
               /\ \A k \in (p + 1)..(p + d) : TheBody[k] \in Digits
               /\ TheBody[p + d + 1] = "."}

\* the n-th segment of the body, n in 1..Cardinality(Boundaries)+1
Segment(n) ==
    SubSeq(TheBody,
           IF n = 1 THEN 1 ELSE Kth(Boundaries, n - 1) + 1,
           IF n = Cardinality(Boundaries) + 1 THEN Len(TheBody)
           ELSE Kth(Boundaries, n) - 1)

\* the ordinals of the segments that are not empty after trimming
Retained == {n \in 1..(Cardinality(Boundaries) + 1) : Strip(Segment(n)) # <<>>}

ExpectedIdPrefix(label) ==
    IF label = <<"A","r","t","i","c","l","e"," ","5">>
    THEN <<"a","r","t","i","c","l","e","_","5","_","p">>
    ELSE <<"a","r","t","i","c","l","e","_","1","0","a","_","p">>

\* C4: iter_paragraph_chunks splits the body at every newline followed by
\* digits and a period, numbers the segments from 1 before filtering, drops
\* the segments that are empty after trimming without renumbering, and emits
\* for each retained segment a Chunk with the id <label>_p<ordinal>, the
\* trimmed segment as text and the parent's fields; an empty body yields none.
C4_ChunkSplit ==
    pc = "chunked" =>
        /\ Len(chunks) = Cardinality(Retained)
        /\ (TheBody = <<>> => chunks = <<>>)
        /\ \A j \in DOMAIN chunks :
               LET n == Kth(Retained, j)
               IN  /\ chunks[j].chunk_id =
                          ExpectedIdPrefix(articles[1].article) \o <<DigitChars[n + 1]>>
                   /\ chunks[j].text = Strip(Segment(n))
                   /\ chunks[j].article = articles[1].article
                   /\ chunks[j].title = articles[1].title
                   /\ chunks[j].chapter = articles[1].chapter
                   /\ chunks[j].section = articles[1].section

\* an empty first segment was dropped and the next chunk kept ordinal 2
C4_Witness ==
    /\ pc = "chunked"
    /\ Cardinality(Boundaries) >= 1
    /\ 1 \notin Retained
    /\ Len(chunks) >= 1
    /\ chunks[1].chunk_id[Len(chunks[1].chunk_id)] = "2"

(***************************************************************************)
(* Properties of GDPRKnowledgeBase.retrieve and of the vector store.       *)
(***************************************************************************)
\* a retrieve call on a non-blank query is in its loop or has returned
NonBlankCall == rpc \in {"walk", "returned"} /\ Strip(query) # <<>>

\* the similarity of the chunk at position p of the ranking
RankedScore(p) == similarities.v[ranked_indices.v[p]]

\* the positions of the ranking examined so far whose score reaches min_score
AcceptedPositions == {p \in 1..examined : RankedScore(p) >= min_score}

\* the rows whose similarity reaches min_score
Qualifying == {r \in DOMAIN similarities.v : similarities.v[r] >= min_score}

\* C5: retrieve returns at most top_k results, each with a score of at least
\* min_score, in non-increasing order of score.
C5_ResultBounds ==
    rpc = "returned" =>
        /\ Len(results) <= top_k
        /\ \A j \in DOMAIN results : results[j].score >= min_score
        /\ \A j \in 1..(Len(results) - 1) : results[j].score >= results[j + 1].score

\* two results of different scores came back under a positive threshold
C5_Witness ==
    /\ rpc = "returned"
    /\ min_score > 0
    /\ Len(results) = 2
    /\ results[1].score > results[2].score
    /\ \E r \in DOMAIN similarities.v : similarities.v[r] < min_score

\* C6: an empty or whitespace-only query returns the empty list at once: the
\* query is not encoded, no similarity is computed and no candidate examined.
C6_BlankQuery ==
    /\ (rpc = "walk" => Strip(query) # <<>>)
    /\ (rpc = "returned" /\ Strip(query) = <<>> =>
            /\ results = <<>>
            /\ query_vec = Unset
            /\ similarities = Unset
            /\ ranked_indices = Unset
            /\ examined = 0)

\* a whitespace-only query returned on an index of three chunks with min_score 0,
\* where encoding it would have given three results of score 0
C6_Witness ==
    /\ rpc = "returned"
    /\ query = Q_Spaces
    /\ min_score = 0
    /\ Len(kb.chunks) >= 3

\* C7: the walk examines the ranked chunks in descending-score order and stops
\* as soon as top_k results are accepted or 2 * top_k candidates were examined;
\* a candidate below min_score takes no slot but counts as examined, and no
\* result comes from beyond position 2 * top_k of the ranking.
C7_WalkCap ==
    NonBlankCall =>
        LET n == Len(ranked_indices.v)
            cap == IF 2 * top_k < n THEN 2 * top_k ELSE n
        IN  /\ \A p \in 1..(n - 1) : RankedScore(p) >= RankedScore(p + 1)
            /\ examined <= cap
            /\ Len(results) = Cardinality(AcceptedPositions)
            /\ \A j \in DOMAIN results :
                   \E p \in 1..cap :
                       results[j].chunk_id = kb.chunks[ranked_indices.v[p]].chunk_id
            /\ (rpc = "walk" => Len(results) < top_k)
            /\ (rpc = "returned" => Len(results) = top_k \/ examined = cap)
            /\ (Len(results) = top_k => examined \in AcceptedPositions)

\* the walk ended on the cap: 2 * top_k candidates examined, one of them below
\* min_score, fewer than top_k accepted, and more chunks left in the ranking
C7_Witness ==
    /\ rpc = "returned"
    /\ Strip(query) # <<>>
    /\ examined = 2 * top_k
    /\ examined < Len(ranked_indices.v)
    /\ Len(results) < top_k
    /\ \E p \in 1..examined : RankedScore(p) < min_score

\* C8 as stated: the cap makes retrieve under-return: when chunks that qualify
\* are ranked beyond the examined window of 2 * top_k, they are missed and
\* fewer than top_k results come back although at least top_k chunks qualify.
C8_CapUnderReturns ==
    (/\ rpc = "returned"
     /\ Strip(query) # <<>>
     /\ \E p \in (2 * top_k + 1)..Len(ranked_indices.v) : RankedScore(p) >= min_score)
        => Len(results) < top_k

\* C8 as amended: the cap never makes retrieve under-return: whenever at least
\* top_k chunks have a score of at least min_score, exactly top_k results come
\* back (the ranking is descending, so the qualifying chunks come first).
C8_NoUnderReturn ==
    (/\ rpc = "returned"
     /\ Strip(query) # <<>>
     /\ Cardinality(Qualifying) >= top_k)
        => Len(results) = top_k

\* chunks that qualify lie beyond the window, and top_k results came back
C8_Witness ==
    /\ rpc = "returned"
    /\ Strip(query) # <<>>
    /\ min_score > 0
    /\ \E p \in (2 * top_k + 1)..Len(ranked_indices.v) : RankedScore(p) >= min_score
    /\ Len(results) = top_k

\* C9: in a loaded engine the chunk list has as many entries as the matrix has
\* rows, row r is the vector of the text of chunk r, and the chunks are those
\* of the chunk file and of the stored index, in the same order.
C9_Alignment ==
    Loaded =>
        LET recs == {k \in DOMAIN chunk_file.data : chunk_file.data[k] # BlankLine}
        IN  /\ Len(kb.chunks) = Len(kb.matrix)
            /\ \A r \in DOMAIN kb.matrix :
                   kb.matrix[r] = TransformRow(kb.vectorizer, kb.chunks[r].text)
            /\ Len(kb.chunks) = Cardinality(recs)
            /\ \A r \in DOMAIN kb.chunks :
                   kb.chunks[r] = chunk_file.data[Kth(recs, r)].json
            /\ index_file.data.json = kb.chunks

\* a loaded engine over two chunks of different texts, from a chunk file with
\* a blank line between the two records
C9_Witness ==
    /\ Loaded
    /\ Len(kb.chunks) = 2
    /\ Len(chunk_file.data) = 3
    /\ chunk_file.data[2] = BlankLine
    /\ kb.chunks[2] = chunk_file.data[3].json
    /\ kb.matrix[1] # kb.matrix[2]

\* C10: every result carries the chunk_id, article, title, chapter, section
\* and text of the chunk whose matrix row gave its score, its score is the
\* similarity of that row to the query, and the results are in ranking order.
C10_ResultMetadata ==
    NonBlankCall =>
        \A j \in DOMAIN results :
            LET idx == ranked_indices.v[Kth(AcceptedPositions, j)]
                c == kb.chunks[idx]
            IN  /\ results[j].chunk_id = c.chunk_id
                /\ results[j].article = c.article
                /\ results[j].title = c.title
                /\ results[j].chapter = c.chapter
                /\ results[j].section = c.section
                /\ results[j].text = c.text
                /\ results[j].score =
                       Cosine(kb.matrix[idx], TransformRow(kb.vectorizer, query))

\* two results came back in an order that is not the order of the chunk file
C10_Witness ==
    /\ rpc = "returned"
    /\ Len(results) = 2
    /\ Len(kb.chunks) >= 3
    /\ results[1].score > results[2].score
    /\ results[1].article = kb.chunks[3].article
    /\ results[2].article = kb.chunks[1].article
    /\ results[1].chapter # kb.chunks[2].chapter


(***************************************************************************)
(* gdpr_judge.py: the legal precedents and _find_relevant_precedents.      *)
(* Relevance scores are in hundredths.  A letter outside ASCII is written  *)
(* "~"; no keyword of the scenarios below has one.                         *)
(***************************************************************************)
\* _load_legal_precedents: the five LegalPrecedent objects
LoadLegalPrecedents ==
    <<
      \* "Google Spain SL, Google Inc. v Agencia Espa~ola de Protecci~n de Datos"
      [case_name |->
         <<"G","o","o","g","l","e"," ","S","p","a","i","n"," ","S","L",
           ","," ","G","o","o","g","l","e"," ","I","n","c","."," ","v",
           " ","A","g","e","n","c","i","a"," ","E","s","p","a","~","o",
           "l","a"," ","d","e"," ","P","r","o","t","e","c","c","i","~",
           "n"," ","d","e"," ","D","a","t","o","s">>,
       relevance_score |-> 95,
       key_points |-> <<
         \* "Established 'right to be forgotten'"
         <<"E","s","t","a","b","l","i","s","h","e","d"," ","'","r","i",
           "g","h","t"," ","t","o"," ","b","e"," ","f","o","r","g","o",
           "t","t","e","n","'">>,
         \* "Search engines are data controllers"
         <<"S","e","a","r","c","h"," ","e","n","g","i","n","e","s"," ",
           "a","r","e"," ","d","a","t","a"," ","c","o","n","t","r","o",
           "l","l","e","r","s">>,
         \* "Right to delisting from search results"
         <<"R","i","g","h","t"," ","t","o"," ","d","e","l","i","s","t",
           "i","n","g"," ","f","r","o","m"," ","s","e","a","r","c","h",
           " ","r","e","s","u","l","t","s">>>>],
      \* "Schrems v Data Protection Commissioner"
      [case_name |->
         <<"S","c","h","r","e","m","s"," ","v"," ","D","a","t","a"," ",
           "P","r","o","t","e","c","t","i","o","n"," ","C","o","m","m",
           "i","s","s","i","o","n","e","r">>,
       relevance_score |-> 90,
       key_points |-> <<
         \* "Invalidated Safe Harbor agreement"
         <<"I","n","v","a","l","i","d","a","t","e","d"," ","S","a","f",
           "e"," ","H","a","r","b","o","r"," ","a","g","r","e","e","m",
           "e","n","t">>,
         \* "Established adequacy requirements for third countries"
         <<"E","s","t","a","b","l","i","s","h","e","d"," ","a","d","e",
           "q","u","a","c","y"," ","r","e","q","u","i","r","e","m","e",
           "n","t","s"," ","f","o","r"," ","t","h","i","r","d"," ","c",
           "o","u","n","t","r","i","e","s">>,
         \* "Emphasized fundamental rights protection"
         <<"E","m","p","h","a","s","i","z","e","d"," ","f","u","n","d",
           "a","m","e","n","t","a","l"," ","r","i","g","h","t","s"," ",
           "p","r","o","t","e","c","t","i","o","n">>>>],
      \* "Schrems II"
      [case_name |->
         <<"S","c","h","r","e","m","s"," ","I","I">>,
       relevance_score |-> 95,
       key_points |-> <<
         \* "Invalidated Privacy Shield"
         <<"I","n","v","a","l","i","d","a","t","e","d"," ","P","r","i",
           "v","a","c","y"," ","S","h","i","e","l","d">>,
         \* "Standard Contractual Clauses require case-by-case assessment"
         <<"S","t","a","n","d","a","r","d"," ","C","o","n","t","r","a",
           "c","t","u","a","l"," ","C","l","a","u","s","e","s"," ","r",
           "e","q","u","i","r","e"," ","c","a","s","e","-","b","y","-",
           "c","a","s","e"," ","a","s","s","e","s","s","m","e","n","t">>,
         \* "Third country surveillance laws must be considered"
         <<"T","h","i","r","d"," ","c","o","u","n","t","r","y"," ","s",
           "u","r","v","e","i","l","l","a","n","c","e"," ","l","a","w",
           "s"," ","m","u","s","t"," ","b","e"," ","c","o","n","s","i",
           "d","e","r","e","d">>>>],
      \* "Weltimmo s.r.o. v Nemzeti Adatv~delmi ~s Inform~ci~szabads~g Hat~s~g"
      [case_name |->
         <<"W","e","l","t","i","m","m","o"," ","s",".","r",".","o",".",
           " ","v"," ","N","e","m","z","e","t","i"," ","A","d","a","t",
           "v","~","d","e","l","m","i"," ","~","s"," ","I","n","f","o",
           "r","m","~","c","i","~","s","z","a","b","a","d","s","~","g",
           " ","H","a","t","~","s","~","g">>,
       relevance_score |-> 85,
       key_points |-> <<
         \* "Established establishment criteria"
         <<"E","s","t","a","b","l","i","s","h","e","d"," ","e","s","t",
           "a","b","l","i","s","h","m","e","n","t"," ","c","r","i","t",
           "e","r","i","a">>,
         \* "Controllers can be subject to GDPR even outside EU"
         <<"C","o","n","t","r","o","l","l","e","r","s"," ","c","a","n",
           " ","b","e"," ","s","u","b","j","e","c","t"," ","t","o"," ",
           "G","D","P","R"," ","e","v","e","n"," ","o","u","t","s","i",
           "d","e"," ","E","U">>,
         \* "Economic activity test for establishment"
         <<"E","c","o","n","o","m","i","c"," ","a","c","t","i","v","i",
           "t","y"," ","t","e","s","t"," ","f","o","r"," ","e","s","t",
           "a","b","l","i","s","h","m","e","n","t">>>>],
      \* "Google LLC v CNIL"
      [case_name |->
         <<"G","o","o","g","l","e"," ","L","L","C"," ","v"," ","C","N",
           "I","L">>,
       relevance_score |-> 80,
       key_points |-> <<
         \* "Right to be forgotten applies globally"
         <<"R","i","g","h","t"," ","t","o"," ","b","e"," ","f","o","r",
           "g","o","t","t","e","n"," ","a","p","p","l","i","e","s"," ",
           "g","l","o","b","a","l","l","y">>,
         \* "Balancing fundamental rights"
         <<"B","a","l","a","n","c","i","n","g"," ","f","u","n","d","a",
           "m","e","n","t","a","l"," ","r","i","g","h","t","s">>,
         \* "Territorial scope of delisting"
         <<"T","e","r","r","i","t","o","r","i","a","l"," ","s","c","o",
           "p","e"," ","o","f"," ","d","e","l","i","s","t","i","n","g">>>>]>>

\* scenarios: "Schrems", "schrems Data", "google", "zz", "a a a a"
ScenarioSet ==
    {<<"S","c","h","r","e","m","s">>,
     <<"s","c","h","r","e","m","s"," ","D","a","t","a">>,
     <<"g","o","o","g","l","e">>,
     <<"z","z">>,
     <<"a"," ","a"," ","a"," ","a">>}

\* lines 385-394: the score of every precedent for each scenario of the
\* model; a keyword adds 0.3 when it is in case_name.lower() and 0.2 when
\* it is in point.lower() of any key point
ScoreTable ==
    LET lower == [p \in DOMAIN LoadLegalPrecedents |->
                    [case_name  |-> Lower(LoadLegalPrecedents[p].case_name),
                     key_points |-> [m \in DOMAIN LoadLegalPrecedents[p].key_points |->
                                        Lower(LoadLegalPrecedents[p].key_points[m])]]]
        In(keyword, text) ==
            \E at \in 1..(Len(text) - Len(keyword) + 1) :
                SubSeq(text, at, at + Len(keyword) - 1) = keyword
        score(s, p) ==
            LET keywords == SplitWords(Lower(s))
            IN  SumOver([k \in DOMAIN keywords |->
                            (IF In(keywords[k], lower[p].case_name) THEN 30 ELSE 0)
                            + (IF \E m \in DOMAIN lower[p].key_points :
                                      In(keywords[k], lower[p].key_points[m])
                               THEN 20 ELSE 0)],
                        DOMAIN keywords)
    IN  [s \in ScenarioSet |-> [p \in DOMAIN LoadLegalPrecedents |-> score(s, p)]]

\* lines 396-397: if score > 0.1, precedent.relevance_score = min(score, 1.0),
\* on the objects of self.legal_precedents
Rescored(scores, s) ==
    [p \in DOMAIN scores |->
        IF ScoreTable[s][p] > 10
        THEN (IF ScoreTable[s][p] < 100 THEN ScoreTable[s][p] ELSE 100)
        ELSE scores[p]]

\* lines 398-400: sorted(relevant, key=lambda x: x.relevance_score,
\* reverse=True)[:3]: the relevant precedents by the score the objects have
\* now, descending, equal scores in their first order; the first three
FindRelevant(scores, s) ==
    LET relevant == {p \in DOMAIN scores : ScoreTable[s][p] > 10}
        before(p) == {q \in relevant : \/ scores[q] > scores[p]
                                       \/ (scores[q] = scores[p] /\ q < p)}
        n == IF Cardinality(relevant) < 3 THEN Cardinality(relevant) ELSE 3
    IN  [j \in 1..n |-> CHOOSE p \in relevant : Cardinality(before(p)) = j - 1]

(***************************************************************************)
(* gdpr_judge.py: GDPRJudge.__init__, analyze_gdpr_compliance,             *)
(* _parse_legal_response, _create_fallback_analysis.  Scores are in        *)
(* hundred-thousandths here, so that round(score, 4) is computed.          *)
(***************************************************************************)
\* self.knowledge_base = None
NoEngine == [set |-> TRUE, none |-> TRUE]

\* variant: the FileNotFoundError of GDPRKnowledgeBase() is not caught
JudgeInitNoCatch ==
    /\ jpc = "none"
    /\ IF Construct.status = "ok"
       THEN /\ knowledge_base' = Value(Construct)
            /\ jpc' = "ready"
            /\ UNCHANGED events
       ELSE /\ jpc' = "init_raised"
            /\ UNCHANGED <<knowledge_base, events>>
    /\ legal_precedents' = [p \in DOMAIN LoadLegalPrecedents |->
                                LoadLegalPrecedents[p].relevance_score]
    /\ UNCHANGED <<pvars, other, dvars, bvars, kb, qvars,
                   retrieved_passages, response, analysis, scenario, precedents, reply>>

\* GDPRJudge.__init__: try GDPRKnowledgeBase() except FileNotFoundError:
\* warning, self.knowledge_base = None; any other exception leaves __init__
JudgeInit ==
    /\ jpc = "none"
    /\ IF Construct.status = "ok"
       THEN /\ knowledge_base' = Value(Construct)
            /\ jpc' = "ready"
            /\ UNCHANGED events
       ELSE IF Construct.status = "FileNotFoundError"
       THEN /\ knowledge_base' = NoEngine
            /\ jpc' = "ready"
            /\ events' = Append(events, "warning: knowledge base unavailable")
       ELSE /\ jpc' = "init_raised"
            /\ UNCHANGED <<knowledge_base, events>>
    /\ legal_precedents' = [p \in DOMAIN LoadLegalPrecedents |->
                                LoadLegalPrecedents[p].relevance_score]
    /\ UNCHANGED <<pvars, other, dvars, bvars, kb, qvars,
                   retrieved_passages, response, analysis, scenario, precedents, reply>>

\* variant: an exception of retrieve is not caught where it is raised; the
\* handler of the whole call answers it with the fallback analysis
JudgeRetrieveNoInnerCatch(s, returned, raises) ==
    /\ jpc = "ready"
    /\ scenario' = s
    /\ IF knowledge_base = NoEngine
       THEN /\ retrieved_passages' = <<>>
            /\ jpc' = "retrieved"
            /\ UNCHANGED <<events, analysis>>
       ELSE IF raises
       THEN /\ retrieved_passages' = <<>>
            /\ jpc' = "returned"
            /\ analysis' = Value([issue |-> "Unable to complete analysis due to technical error",
                                  confidence_score |-> 10,
                                  supporting_passages |-> <<>>])
            /\ events' = events \o <<"retrieve", "error: legal analysis">>
       ELSE /\ retrieved_passages' = returned
            /\ jpc' = "retrieved"
            /\ events' = Append(events, "retrieve")
            /\ UNCHANGED analysis
    /\ UNCHANGED <<pvars, other, dvars, bvars, kb, qvars,
                   knowledge_base, response, legal_precedents, precedents, reply>>

\* analyze_gdpr_compliance, lines 206-212: retrieve(scenario, top_k=5) when
\* there is an engine; what it returns is any list passed in (C5-C10 say
\* which lists retrieve gives), and an exception of it gives []
JudgeRetrieve(s, returned, raises) ==
    /\ jpc = "ready"
    /\ scenario' = s
    /\ IF knowledge_base = NoEngine
       THEN /\ retrieved_passages' = <<>>
            /\ UNCHANGED events
       ELSE IF raises
       THEN /\ retrieved_passages' = <<>>
            /\ events' = events \o <<"retrieve", "warning: retrieval failed">>
       ELSE /\ retrieved_passages' = returned
            /\ events' = Append(events, "retrieve")
    /\ jpc' = "retrieved"
    /\ UNCHANGED <<pvars, other, dvars, bvars, kb, qvars,
                   knowledge_base, response, analysis, legal_precedents, precedents, reply>>

\* round(x, 4) of a score in hundred-thousandths: the nearest multiple of
\* ten; at a tie the binary value of the float decides
Round4(x) ==
    IF x % 10 = 5 THEN {x - 5, x + 5} ELSE {((x + 5) \div 10) * 10}

\* the ways of rounding the scores of a list of passages
Roundings(passages) ==
    {r \in [DOMAIN passages -> UNION {Round4(passages[j].score) : j \in DOMAIN passages}] :
        \A j \in DOMAIN passages : r[j] \in Round4(passages[j].score)}

\* supporting_context = [{"article": passage.article, ...,
\*                        "score": round(passage.score, 4)} for passage in ...]
SupportingContext(passages, r) ==
    [j \in DOMAIN passages |->
        [article |-> passages[j].article,
         title   |-> passages[j].title,
         chapter |-> passages[j].chapter,
         section |-> passages[j].section,
         text    |-> passages[j].text,
         score   |-> r[j]]]

\* variant: the fallback analysis carries no passages
FallbackWithoutPassages(passages, r) ==
    [issue |-> "Unable to complete analysis due to technical error",
     confidence_score |-> 10,
     supporting_passages |-> <<>>]

\* _create_fallback_analysis (confidence_score in hundredths)
FallbackAnalysis(passages, r) ==
    [issue |-> "Unable to complete analysis due to technical error",
     confidence_score |-> 10,
     supporting_passages |-> SupportingContext(passages, r)]

\* _parse_legal_response on a response text: data comes from the JSON object
\* in it, or from _extract_info_from_text when there is none
ParsedAnalysis(kind, passages, r) ==
    [issue |-> IF kind = "json" THEN "Test issue" ELSE "GDPR compliance analysis",
     confidence_score |-> IF kind = "json" THEN 90 ELSE 60,
     supporting_passages |-> SupportingContext(passages, r)]

\* what client.generate can do: raise, return a dict without 'response',
\* with a 'response' that is no string, with JSON in it, or with plain text
ResponseKinds == {"raises", "no_key", "not_text", "json", "text"}

\* _create_legal_analysis_prompt, lines 248-252: the retrieval section of
\* the prompt lists the passages, or says that none was retrieved
PromptEvent(passages) ==
    IF passages = <<>> THEN "prompt: no direct passages" ELSE "prompt: passages"

\* variant: an empty passage list is taken for a failure
JudgeGenerateEmptyFails(kind) ==
    /\ jpc = "retrieved"
    /\ response' = IF retrieved_passages = <<>> THEN response ELSE Value(kind)
    /\ \E r \in Roundings(retrieved_passages) :
          IF retrieved_passages = <<>>
          THEN /\ analysis' = Value(FallbackAnalysis(retrieved_passages, r))
               /\ events' = Append(events, "error: legal analysis")
          ELSE IF kind \in {"raises", "no_key"}
          THEN /\ analysis' = Value(FallbackAnalysis(retrieved_passages, r))
               /\ events' = events \o <<PromptEvent(retrieved_passages), "generate",
                                         "error: legal analysis">>
          ELSE IF kind = "not_text"
          THEN /\ analysis' = Value(FallbackAnalysis(retrieved_passages, r))
               /\ events' = events \o <<PromptEvent(retrieved_passages), "generate",
                                         "error: parsing legal response">>
          ELSE /\ analysis' = Value(ParsedAnalysis(kind, retrieved_passages, r))
               /\ events' = events \o <<PromptEvent(retrieved_passages), "generate">>
    /\ IF kind \in {"json", "text"} /\ retrieved_passages # <<>>
       THEN /\ legal_precedents' = Rescored(legal_precedents, scenario)
            /\ precedents' = FindRelevant(legal_precedents', scenario)
       ELSE /\ precedents' = <<>>
            /\ UNCHANGED legal_precedents
    /\ jpc' = "returned"
    /\ UNCHANGED <<pvars, other, dvars, bvars, kb, qvars,
                   knowledge_base, retrieved_passages, scenario, reply>>

\* lines 213-233: the prompt, client.generate, _parse_legal_response; every
\* exception ends in _create_fallback_analysis(scenario, retrieved_passages)
JudgeGenerate(kind) ==
    /\ jpc = "retrieved"
    /\ response' = Value(kind)
    /\ \E r \in Roundings(retrieved_passages) :
          IF kind \in {"raises", "no_key"}
          THEN /\ analysis' = Value(FallbackAnalysis(retrieved_passages, r))
               /\ events' = events \o <<PromptEvent(retrieved_passages), "generate",
                                         "error: legal analysis">>
          ELSE IF kind = "not_text"
          THEN /\ analysis' = Value(FallbackAnalysis(retrieved_passages, r))
               /\ events' = events \o <<PromptEvent(retrieved_passages), "generate",
                                         "error: parsing legal response">>
          ELSE /\ analysis' = Value(ParsedAnalysis(kind, retrieved_passages, r))
               /\ events' = events \o <<PromptEvent(retrieved_passages), "generate">>
    /\ IF kind \in {"json", "text"}
       THEN \* line 317: _find_relevant_precedents(scenario)
            /\ legal_precedents' = Rescored(legal_precedents, scenario)
            /\ precedents' = FindRelevant(legal_precedents', scenario)
       ELSE /\ precedents' = <<>>
            /\ UNCHANGED legal_precedents
    /\ jpc' = "returned"
    /\ UNCHANGED <<pvars, other, dvars, bvars, kb, qvars,
                   knowledge_base, retrieved_passages, scenario, reply>>

\* the call is over; the next analyze_gdpr_compliance can start
JudgeDone ==
    /\ jpc = "returned"
    /\ jpc' = "ready"
    /\ retrieved_passages' = <<>>
    /\ response' = Unset
    /\ analysis' = Unset
    /\ events' = <<>>
    /\ scenario' = None
    /\ precedents' = <<>>
    /\ UNCHANGED <<pvars, other, dvars, bvars, kb, qvars, knowledge_base,
                   legal_precedents, reply>>

\* the RetrievalResults a retrieve call can return; scores in
\* hundred-thousandths: the default min_score 0.05, 0.54772, 0.70715 (a tie
\* of round) and 1
PassageSet ==
    {MakeResult(ChunkRecord(k, T_AaBb), sc) :
        k \in 1..2, sc \in {5000, 54772, 70715, 100000}}

\* a judge is constructed on a data directory that is empty, holds a
\* complete bundle, holds only the chunk index of a first build under way,
\* or holds a truncated vectorizer; then it analyses scenarios
InitJudge ==
    /\ lines = <<>>
    /\ i = 1
    /\ current_chapter = None
    /\ current_section = None
    /\ articles = <<>>
    /\ chunks = <<>>
    /\ pc = "scan"
    /\ \E f \in {g \in BundleFiles : ~FitFails(TextsOf(LoadChunks(g)))} :
          /\ chunk_file = File(f)
          /\ \E have \in {"nothing", "index", "all", "torn"} :
                /\ index_file = IF have = "nothing" THEN Absent ELSE BundleOf(f).index
                /\ matrix_file = IF have \in {"all", "torn"} THEN BundleOf(f).matrix
                                 ELSE Absent
                /\ vectorizer_file = IF have = "all" THEN BundleOf(f).vectorizer
                                     ELSE IF have = "torn" THEN Torn ELSE Absent
    /\ bpc = "idle"
    /\ b_chunks = Unset
    /\ b_matrix = Unset
    /\ b_vectorizer = Unset
    /\ kb = Unset
    /\ rpc = "idle"
    /\ query = None
    /\ top_k = 0
    /\ min_score = 0
    /\ query_vec = Unset
    /\ similarities = Unset
    /\ ranked_indices = Unset
    /\ examined = 0
    /\ results = <<>>
    /\ InitJudgeIdle

NextJudge ==
    \/ JudgeInit
    \/ \E s \in {<<"S","c","h","r","e","m","s">>, <<"z","z">>},
          returned \in SeqsUpTo(PassageSet, MaxPassages),
          raises \in BOOLEAN :
          JudgeRetrieve(s, returned, raises)
    \/ \E kind \in ResponseKinds : JudgeGenerate(kind)
    \/ JudgeDone

SpecJudge == InitJudge /\ [][NextJudge]_vars

(***************************************************************************)
(* web_ui.py: the /analyze handler on the global judge.  Flask serves each *)
(* request in a thread of its own (app.run, threaded by default), so the   *)
(* analyze_gdpr_compliance call of another request runs on the same        *)
(* GDPRJudge at any point of this one.                                     *)
(***************************************************************************)
\* lines 56-78: the reply is built from the analysis; relevance_score is
\* read from the LegalPrecedent objects that analysis.precedents refers to
WebRespond ==
    /\ jpc = "returned"
    /\ reply' = [j \in DOMAIN precedents |->
                    [precedent       |-> precedents[j],
                     relevance_score |-> legal_precedents[precedents[j]]]]
    /\ jpc' = "replied"
    /\ UNCHANGED <<pvars, other, dvars, bvars, kb, qvars, knowledge_base,
                   retrieved_passages, response, analysis, events, scenario,
                   legal_precedents, precedents>>

\* the request is over; the next one can come
WebDone ==
    /\ jpc = "replied"
    /\ jpc' = "ready"
    /\ retrieved_passages' = <<>>
    /\ response' = Unset
    /\ analysis' = Unset
    /\ events' = <<>>
    /\ scenario' = None
    /\ precedents' = <<>>
    /\ reply' = <<>>
    /\ UNCHANGED <<pvars, other, dvars, bvars, kb, qvars, knowledge_base,
                   legal_precedents>>

\* the analyze_gdpr_compliance call of another request, with scenario s,
\* comes to _find_relevant_precedents (gdpr_judge.py, lines 383-400)
OtherRequest(s) ==
    /\ jpc \in {"ready", "retrieved", "returned"}
    /\ legal_precedents' = Rescored(legal_precedents, s)
    /\ UNCHANGED <<pvars, other, dvars, bvars, kb, qvars, jpc, knowledge_base,
                   retrieved_passages, response, analysis, events, scenario,
                   precedents, reply>>

NextWeb ==
    \/ JudgeInit
    \/ \E s \in ScenarioSet, returned \in SeqsUpTo(PassageSet, 1),
          raises \in BOOLEAN :
          JudgeRetrieve(s, returned, raises)
    \/ \E kind \in ResponseKinds : JudgeGenerate(kind)
    \/ WebRespond
    \/ WebDone
    \/ \E s \in ScenarioSet : OtherRequest(s)

SpecWeb == InitJudge /\ [][NextWeb]_vars

\* a complete build was loaded by one engine, on which two threads call
\* retrieve without locking
InitConcurrent ==
    /\ lines = <<>>
    /\ i = 1
    /\ current_chapter = None
    /\ current_section = None
    /\ articles = <<>>
    /\ chunks = <<>>
    /\ pc = "scan"
    /\ \E f \in {g \in BundleFiles : ~FitFails(TextsOf(LoadChunks(g)))} :
          /\ chunk_file = File(f)
          /\ index_file = BundleOf(f).index
          /\ matrix_file = BundleOf(f).matrix
          /\ vectorizer_file = BundleOf(f).vectorizer
          /\ b_chunks = Value(LoadChunks(f))
          /\ b_matrix = Value(BundleOf(f).matrix.data)
          /\ b_vectorizer = Value(BundleOf(f).vectorizer.data)
          /\ kb = [status |-> "ok",
                   vectorizer |-> BundleOf(f).vectorizer.data,
                   matrix |-> BundleOf(f).matrix.data,
                   chunks |-> JsonLoads(BundleOf(f).index.data)]
    /\ bpc = "done"
    /\ rpc = "idle"
    /\ query = None
    /\ top_k = 0
    /\ min_score = 0
    /\ query_vec = Unset
    /\ similarities = Unset
    /\ ranked_indices = Unset
    /\ examined = 0
    /\ results = <<>>
    /\ other = IdleFrame
    /\ jpc = "none"
    /\ knowledge_base = Unset
    /\ retrieved_passages = <<>>
    /\ response = Unset
    /\ analysis = Unset
    /\ events = <<>>
    /\ scenario = None
    /\ legal_precedents = <<>>
    /\ precedents = <<>>
    /\ reply = <<>>

NextConcurrent ==
    \/ \E q \in {Q_Spaces, Q_Aa, Q_AaCc}, k \in 1..MaxTopK, m \in {0, 50} :
          RetrieveStart(q, k, m)
    \/ WalkSkip
    \/ WalkAccept
    \/ WalkEnd
    \/ RetrieveDone
    \/ Switch

SpecConcurrent == InitConcurrent /\ [][NextConcurrent]_vars

(***************************************************************************)
(* Claims about the bundle on disk and the construction of the engine.     *)
(***************************************************************************)
\* the builds that complete
Buildable == {f \in BundleFiles : ~FitFails(TextsOf(LoadChunks(f)))}

\* the three parts of an engine are those of one complete build
FromOneBuild(k) ==
    \E f \in Buildable :
        /\ k.chunks = JsonLoads(BundleOf(f).index.data)
        /\ k.matrix = BundleOf(f).matrix.data
        /\ k.vectorizer = BundleOf(f).vectorizer.data

\* the three files are all absent or those of one complete build
DiskIsOneBundle ==
    \/ index_file = Absent /\ matrix_file = Absent /\ vectorizer_file = Absent
    \/ \E f \in Buildable :
          /\ index_file = BundleOf(f).index
          /\ matrix_file = BundleOf(f).matrix
          /\ vectorizer_file = BundleOf(f).vectorizer

\* C11: an engine constructed while builds run (none of them failing) either
\* fails to load or holds a vectorizer, a matrix and a chunk list that all
\* come from the same build.
C11_PublishedAsOneUnit == Loaded => FromOneBuild(kb)

\* C12: when a build has failed (at fit_transform or at one of the three
\* writes), the artifacts on disk are all absent or all those of one build.
C12_FailedBuildLeavesNoPartialSet == bpc = "failed" => DiskIsOneBundle

\* the chunk file exists and holds no chunk
EmptyCorpus == chunk_file # Absent /\ LoadChunks(chunk_file.data) = <<>>

\* C13: a build of an empty chunk collection ends without error, with the
\* three files of an empty bundle on disk (no chunk, a matrix without rows).
C13_EmptyBuildCompletes ==
    (EmptyCorpus /\ bpc \in {"done", "failed"})
        => /\ bpc = "done"
           /\ index_file = File(JsonDumps(<<>>))
           /\ matrix_file = File(<<>>)
           /\ vectorizer_file # Absent

\* the construction passed the existence test (and may have loaded parts)
PastCheck ==
    /\ kb # Unset
    /\ kb.status \in {"checked", "vectorizer_loaded", "matrix_loaded", "ok"}

\* C14: a construction that starts while one of the three files is missing
\* ends at the existence test with the missing-asset error, nothing loaded;
\* and no engine, complete or under construction, holds a part of a bundle
\* of which a file is missing.
C14_MissingAssetFailsBeforeLoad ==
    /\ [][(kb = Unset /\ AssetMissing /\ kb' # kb) => kb' = MissingAssetsError]_vars
    /\ [](PastCheck => ~AssetMissing)

\* the index is written, the matrix or the vectorizer is not, and a
\* construction has failed with the missing-asset error
C14_Witness ==
    /\ kb = MissingAssetsError
    /\ index_file # Absent
    /\ matrix_file = Absent \/ vectorizer_file = Absent

\* sub occurs in s
Contains(s, sub) ==
    \E p \in 1..(Len(s) - Len(sub) + 1) : SubSeq(s, p, p + Len(sub) - 1) = sub

\* the message names the artifact: by its file name or by its kind
Identifies(msg, name, kind) == Contains(msg, name) \/ Contains(Lower(msg), kind)

\* C15: the error of a construction that fails on a missing file names each
\* file that is missing at that moment.
C15_ErrorNamesMissingArtifact ==
    [][(kb = Unset /\ kb' # kb /\ kb'.status = "FileNotFoundError")
          => /\ vectorizer_file = Absent
                    => Identifies(kb'.message, VectorizerName, <<"v","e","c","t","o","r","i","z","e","r">>)
             /\ matrix_file = Absent
                    => Identifies(kb'.message, MatrixName, <<"m","a","t","r","i","x">>)
             /\ index_file = Absent
                    => Identifies(kb'.message, IndexName, <<"i","n","d","e","x">>)]_vars

\* C16: no engine is constructed from a matrix and a chunk list of different
\* lengths.
C16_RowCountChecked == Loaded => Len(kb.matrix) = Len(kb.chunks)

\* C17: no exception leaves retrieve.
C17_RetrieveContainsErrors == rpc # "raised"

(***************************************************************************)
(* Claims about concurrent queries.                                        *)
(***************************************************************************)
\* what retrieve(q, tk, m) returns on engine k when it runs alone and the
\* sort gives the ranking p
ResultsAlone(k, q, tk, m, p) ==
    LET sims == CosineSimilarity(k.matrix, TransformRow(k.vectorizer, q))
        ok == {j \in 1..Window(tk, Len(p)) : sims[p[j]] >= m}
        n == IF Cardinality(ok) < tk THEN Cardinality(ok) ELSE tk
    IN  [j \in 1..n |-> MakeResult(k.chunks[p[Kth(ok, j)]], sims[p[Kth(ok, j)]])]

\* the call with locals f did not raise, and what it returned is what it
\* returns alone
AsAlone(f) ==
    /\ f.rpc # "raised"
    /\ f.rpc = "returned" =>
          IF Strip(f.query) = <<>> THEN f.results = <<>>
          ELSE /\ Len(kb.chunks) = Len(kb.matrix)
               /\ \E p \in Rankings(CosineSimilarity(kb.matrix,
                                      TransformRow(kb.vectorizer, f.query))) :
                   f.results = ResultsAlone(kb, f.query, f.top_k, f.min_score, p)

\* C18: no step of a retrieve call changes the loaded bundle, and under
\* every interleaving of two calls on one instance each call returns what
\* it returns when run alone.
C18_ConcurrentQueries ==
    /\ [][kb' = kb]_vars
    /\ [](AsAlone(Frame) /\ AsAlone(other))

\* one call has returned passages while the other call, with another
\* query, is inside its loop
C18_Witness ==
    /\ rpc = "returned"
    /\ results # <<>>
    /\ other.rpc = "walk"
    /\ other.examined > 0
    /\ other.query # query
    /\ other.results # <<>>

(***************************************************************************)
(* Claims about GDPRJudge.                                                 *)
(***************************************************************************)
Returned == jpc = "returned"

\* the fields a supporting passage takes over from its RetrievalResult
SameMetadata(entry, passage) ==
    /\ entry.article = passage.article
    /\ entry.title = passage.title
    /\ entry.chapter = passage.chapter
    /\ entry.section = passage.section
    /\ entry.text = passage.text

\* C19 as stated: the analysis returned has one supporting passage per
\* RetrievalResult, in order, with article, title, chapter, section, text
\* and score as they are in the result.
C19_PassagesVerbatim ==
    Returned =>
        /\ Len(analysis.v.supporting_passages) = Len(retrieved_passages)
        /\ \A j \in DOMAIN retrieved_passages :
              /\ SameMetadata(analysis.v.supporting_passages[j], retrieved_passages[j])
              /\ analysis.v.supporting_passages[j].score = retrieved_passages[j].score

\* C19 amended: the same, the score being the result's score rounded to
\* four decimal places; for the parsed and for the fallback analysis.
C19_PassagesScoreRounded ==
    Returned =>
        /\ Len(analysis.v.supporting_passages) = Len(retrieved_passages)
        /\ \A j \in DOMAIN retrieved_passages :
              /\ SameMetadata(analysis.v.supporting_passages[j], retrieved_passages[j])
              /\ analysis.v.supporting_passages[j].score
                     \in Round4(retrieved_passages[j].score)

\* the model call raised and the fallback analysis carries two passages,
\* the score of the first changed by the rounding
C19_Witness ==
    /\ Returned
    /\ response = Value("raises")
    /\ Len(retrieved_passages) = 2
    /\ Len(analysis.v.supporting_passages) = 2
    /\ retrieved_passages[1].score = 54772
    /\ analysis.v.supporting_passages[1].score = 54770
    /\ retrieved_passages[2].article # retrieved_passages[1].article

\* C20: the construction of a judge on a directory with a missing asset
\* succeeds with knowledge_base = None, and every analysis of such a judge
\* makes no retrieve call, calls the model and has no supporting passages.
C20_FallbackWithoutEngine ==
    /\ [][(jpc = "none" /\ AssetMissing /\ jpc' # jpc)
              => (jpc' = "ready" /\ knowledge_base' = NoEngine)]_vars
    /\ []((Returned /\ knowledge_base = NoEngine)
              => /\ "retrieve" \notin Range(events)
                 /\ "generate" \in Range(events)
                 /\ analysis.v.supporting_passages = <<>>)

\* only the chunk index is on disk; the judge was constructed without an
\* engine and has returned an analysis parsed from the model's JSON
C20_Witness ==
    /\ Returned
    /\ knowledge_base = NoEngine
    /\ index_file # Absent
    /\ matrix_file = Absent
    /\ response = Value("json")
    /\ analysis.v.issue = "Test issue"

\* retrieve was called and returned the empty list
RetrievedNothing ==
    /\ "retrieve" \in Range(events)
    /\ "warning: retrieval failed" \notin Range(events)
    /\ retrieved_passages = <<>>

FallbackIssue == "Unable to complete analysis due to technical error"

\* C21 as stated: when retrieve returned the empty list, the analysis
\* returned is the parsed one, not the fallback, with no supporting passage,
\* the prompt having been built and the model called.
C21_EmptyListGivesParsedAnalysis ==
    (Returned /\ RetrievedNothing)
        => /\ "prompt: no direct passages" \in Range(events)
           /\ "generate" \in Range(events)
           /\ analysis.v.issue # FallbackIssue
           /\ analysis.v.supporting_passages = <<>>

\* C21 amended: when retrieve returned the empty list, the prompt is built
\* and the model called; the analysis has no supporting passage, and it is
\* the parsed one whenever the model call returned a response text (the
\* fallback only when the model call or the parsing raised).
C21_EmptyListIsNoFailure ==
    (Returned /\ RetrievedNothing)
        => /\ "prompt: no direct passages" \in Range(events)
           /\ "generate" \in Range(events)
           /\ analysis.v.supporting_passages = <<>>
           /\ analysis.v.issue # FallbackIssue <=> response.v \in {"json", "text"}

\* retrieve returned the empty list and the analysis is the one parsed from
\* the model's plain text
C21_Witness ==
    /\ Returned
    /\ RetrievedNothing
    /\ response = Value("text")
    /\ analysis.v.issue = "GDPR compliance analysis"
    /\ analysis.v.supporting_passages = <<>>

(***************************************************************************)
(* Further claims about retrieve.                                          *)
(***************************************************************************)
\* the query is not blank and none of its terms is in the vocabulary
UnknownQuery ==
    /\ Strip(query) # <<>>
    /\ Range(Analyze(query)) \cap kb.vectorizer.vocabulary = {}

\* C22: retrieve never changes the vectorizer (no term is added), and for a
\* non-blank query without a term of the vocabulary the query vector is
\* zero, every similarity is 0 and, for min_score > 0, the list returned
\* is empty.
C22_UnknownTermsWeighZero ==
    /\ [][Loaded => (Loaded' /\ kb'.vectorizer = kb.vectorizer)]_vars
    /\ []((rpc \in {"walk", "returned"} /\ UnknownQuery)
              => /\ \A t \in DOMAIN query_vec.v : query_vec.v[t] = 0
                 /\ \A r \in DOMAIN similarities.v : similarities.v[r] = 0
                 /\ (rpc = "returned" /\ min_score > 0) => results = <<>>)

\* the query "zz" on three chunks with the default min_score 0.05: every
\* examined candidate was skipped and nothing is returned
C22_Witness ==
    /\ rpc = "returned"
    /\ query = Q_Zz
    /\ min_score = 5
    /\ Len(kb.chunks) = 3
    /\ examined >= 2
    /\ results = <<>>

(***************************************************************************)
(* Titles of Chapter and Section headings.                                 *)
(***************************************************************************)
\* the first non-blank line after line h, 0 if there is none
NextNonBlank(h) ==
    LET T == {k \in DOMAIN lines : k > h /\ Strip(lines[k]) # <<>>}
    IN  IF T = {} THEN 0 ELSE CHOOSE k \in T : \A m \in T : k <= m

\* the line under the scan index is a Chapter or a Section heading
AtContextHeading ==
    /\ Scanning
    /\ (CHAPTER_PATTERN(Strip(lines[i])) \/ SECTION_PATTERN(Strip(lines[i])))

\* C23: after a Chapter or Section heading the next non-blank line is taken
\* as the title exactly when it is not a heading, and the context becomes
\* '<LABEL> - <TITLE>' with the label upper-cased and whitespace-collapsed;
\* when that line is a heading or there is none the context is the label
\* alone, and the scan goes on at the line after the heading, so that no
\* heading line is passed over: the following heading is scanned itself.
C23_HeadingTitle ==
    [][AtContextHeading =>
         LET n     == NextNonBlank(i)
             label == Upper(Join(SplitWords(lines[i]), <<" ">>))
             ctx   == IF CHAPTER_PATTERN(Strip(lines[i]))
                      THEN current_chapter' ELSE current_section'
         IN  /\ (n # 0 /\ ~IsHeading(lines[n])) =>
                    /\ ctx = label \o <<" ", "-", " ">>
                                 \o Join(SplitWords(lines[n]), <<" ">>)
                    /\ i' = n + 1
             /\ (n = 0 \/ IsHeading(lines[n])) =>
                    /\ ctx = label
                    /\ i' = i + 1
             /\ \A k \in (i + 1)..(i' - 1) : ~IsHeading(lines[k])
             /\ pc' = "scan"]_vars

\* a Chapter heading took its title and the Section heading after it, directly
\* followed by another heading, took none
C23_Witness ==
    /\ pc = "scan"
    /\ LET c == LastBefore(ChapterLines, i)
           t == LastBefore(SectionLines, i)
       IN  /\ c > 0 /\ t > c
           /\ NextNonBlank(c) # 0 /\ ~IsHeading(lines[NextNonBlank(c)])
           /\ NextNonBlank(t) # 0 /\ IsHeading(lines[NextNonBlank(t)])
           /\ i > NextNonBlank(t)
           /\ Len(current_chapter) > Len(Normalize(lines[c]))
           /\ current_section = Upper(Normalize(lines[t]))

(***************************************************************************)
(* The body of an Article.                                                 *)
(***************************************************************************)
\* the title line of the heading at line h, 0 if it has none
TitleLine(h) ==
    LET n == NextNonBlank(h)
    IN  IF n # 0 /\ ~IsHeading(lines[n]) THEN n ELSE 0

\* the first line of the body region of the Article heading at line h
BodyStart(h) == (IF TitleLine(h) # 0 THEN TitleLine(h) ELSE h) + 1

\* the line that ends the body region: the next heading line, or the end
BodyEnd(h) ==
    LET T == {k \in DOMAIN lines : k >= BodyStart(h) /\ IsHeading(lines[k])}
    IN  IF T = {} THEN Len(lines) + 1 ELSE CHOOSE k \in T : \A m \in T : k <= m

\* the whitespace-collapsed non-blank lines among lines a..b, in order
RECURSIVE CollapsedLines(_, _)
CollapsedLines(a, b) ==
    IF a > b THEN <<>>
    ELSE (IF Strip(lines[a]) = <<>> THEN <<>>
          ELSE <<Join(SplitWords(lines[a]), <<" ">>)>>) \o CollapsedLines(a + 1, b)

\* C24: the text of an Article is the newline-join of the whitespace-collapsed
\* non-blank lines after its heading and its optional title line, up to but
\* excluding the next heading line or the end of the input; blank lines
\* neither appear in it nor end it, the title line is not in it, and the scan
\* goes on at the heading line that ended the body.
C24_ArticleBody ==
    /\ [][(Scanning /\ i \in ArticleLines)
              => (i' = BodyEnd(i) /\ Len(articles') = Len(articles) + 1)]_vars
    /\ [](\A k \in DOMAIN articles :
              LET h == Kth(ArticleLines, k)
              IN  /\ articles[k].text
                         = Join(CollapsedLines(BodyStart(h), BodyEnd(h) - 1),
                                <<"\n">>)
                  /\ articles[k].title
                         = (IF TitleLine(h) = 0 THEN <<>>
                            ELSE Join(SplitWords(lines[TitleLine(h)]), <<" ">>)))

\* an Article with a title line and, after a blank line, a body line
C24_Witness ==
    /\ pc = "parsed"
    /\ \E k \in DOMAIN articles :
           LET h == Kth(ArticleLines, k)
           IN  /\ TitleLine(h) # 0
               /\ articles[k].text # <<>>
               /\ \E m \in BodyStart(h)..(BodyEnd(h) - 1) : Strip(lines[m]) = <<>>
               /\ \E m \in BodyStart(h)..(BodyEnd(h) - 1) : Strip(lines[m]) # <<>>

(***************************************************************************)
(* Lines that look like a heading and match no heading pattern.            *)
(***************************************************************************)
HeadingLines == {k \in DOMAIN lines : IsHeading(lines[k])}

\* the line starts with a heading keyword and is not a heading
HeadingLike(line) ==
    /\ \/ StartsWithIC(Strip(line), <<"a","r","t","i","c","l","e">>)
       \/ StartsWithIC(Strip(line), <<"c","h","a","p","t","e","r">>)
       \/ StartsWithIC(Strip(line), <<"s","e","c","t","i","o","n">>)
    /\ ~IsHeading(line)

Collapsed(line) == Join(SplitWords(line), <<" ">>)

\* the context label of the heading at line h with the text of line k as title
Titled(h, k) == Upper(Collapsed(lines[h])) \o <<" ", "-", " ">> \o Collapsed(lines[k])

\* C25 as stated: parse_articles raises nothing and a heading-like line that
\* matches no pattern is body text or is skipped, so that it is never the
\* title of an Article nor the title in a Chapter or Section context.
C25_HeadingLikeIsBodyOrSkipped ==
    /\ pc # "raised"
    /\ \A k \in DOMAIN lines :
           HeadingLike(lines[k]) =>
               /\ \A a \in DOMAIN articles :
                      LET h == Kth(ArticleLines, a)
                      IN  ~(TitleLine(h) = k /\ articles[a].title = Collapsed(lines[k]))
               /\ \A h \in ChapterLines :
                      ~(TitleLine(h) = k /\ current_chapter = Titled(h, k))
               /\ \A h \in SectionLines :
                      ~(TitleLine(h) = k /\ current_section = Titled(h, k))

\* C25: parse_articles raises no exception; a non-heading line the scan index
\* comes to (a line before the first heading, or after a Chapter or Section
\* title, heading-like or not) is skipped without any effect; and a
\* heading-like line that matches no pattern is treated as any other
\* non-heading line: the title of the heading it directly follows, a body line
\* of the Article being accumulated, or skipped.
C25_NoParseError ==
    /\ [][(Scanning /\ ~IsHeading(lines[i]))
              => /\ i' = i + 1
                 /\ UNCHANGED <<articles, current_chapter, current_section, pc>>]_vars
    /\ [](pc # "raised")
    /\ [](\A k \in 1..(i - 1) :
              (k \in DOMAIN lines /\ HeadingLike(lines[k])) =>
                  LET h == LastBefore(HeadingLines, k)
                      a == Cardinality({m \in ArticleLines : m <= h})
                  IN  /\ (h \in ArticleLines /\ TitleLine(h) = k)
                             => articles[a].title = Collapsed(lines[k])
                      /\ (h \in ArticleLines /\ TitleLine(h) # k)
                             => Contains(articles[a].text, Collapsed(lines[k]))
                      /\ (h \in ChapterLines /\ TitleLine(h) = k /\ i = k + 1)
                             => current_chapter = Titled(h, k)
                      /\ (h \in SectionLines /\ TitleLine(h) = k /\ i = k + 1)
                             => current_section = Titled(h, k))

\* a heading-like line became the title of an Article and another one its
\* body, and a third one was skipped before the first heading
C25_Witness ==
    /\ pc = "parsed"
    /\ Len(lines) = 4
    /\ HeadingLike(lines[1])
    /\ Len(articles) = 1
    /\ HeadingLike(articles[1].title)
    /\ HeadingLike(articles[1].text)

(***************************************************************************)
(* Termination of parse_articles.                                          *)
(***************************************************************************)
\* C26: parse_articles terminates: every iteration of the outer scan moves
\* the line index strictly forward and at most to one past the last line, so
\* the lines a step visits or consumes (those from i up to the new index) are
\* never met again, and the scan returns.
C26_ParseTerminates ==
    /\ [][(pc = "scan" /\ i <= Len(lines))
              => (i' > i /\ i' <= Len(lines) + 1 /\ lines' = lines)]_vars
    /\ <>(pc = "parsed" /\ i = Len(lines) + 1)

\* the scan returned after a step that consumed a title line and a body line
C26_Witness ==
    /\ pc = "parsed"
    /\ i = Len(lines) + 1
    /\ \E a \in DOMAIN articles :
           /\ articles[a].title # <<>>
           /\ articles[a].text # <<>>
           /\ BodyEnd(Kth(ArticleLines, a)) >= Kth(ArticleLines, a) + 3

(***************************************************************************)
(* Chunks of the Articles that parse_articles produces.                    *)
(***************************************************************************)
\* the text starts with digits and a period
StartsNumbered(text) ==
    \E d \in 1..Len(text) :
        /\ d + 1 <= Len(text)
        /\ \A k \in 1..d : text[k] \in Digits
        /\ text[d + 1] = "."

\* the newlines of a text that are immediately followed by digits and a period
ParagraphBreaks(text) ==
    {p \in DOMAIN text :
        /\ text[p] = "\n"
        /\ StartsNumbered(SubSeq(text, p + 1, Len(text)))}

\* the number of chunks a text is to give
ChunkCount(text) ==
    IF text = <<>> THEN 0 ELSE Cardinality(ParagraphBreaks(text)) + 1

\* the chunks of the a-th Article: the run of chunks after those of the
\* Articles before it
ChunksOfArticle(a) ==
    LET off == SumOver([b \in DOMAIN articles |-> ChunkCount(articles[b].text)],
                       1..(a - 1))
    IN  SubSeq(chunks, off + 1, off + ChunkCount(articles[a].text))

\* C27: for every Article that parse_articles produced, iter_paragraph_chunks
\* drops no segment: the Article's chunks carry the ordinals 1..n without a
\* gap, n is 0 only for an empty body, every chunk after the first starts
\* with digits and a period, and the chunk texts joined with newlines are the
\* Article's text.
C27_NoSegmentDropped ==
    pc = "chunked" =>
        /\ Len(chunks)
               = SumOver([b \in DOMAIN articles |-> ChunkCount(articles[b].text)],
                         DOMAIN articles)
        /\ \A a \in DOMAIN articles :
               LET mine == ChunksOfArticle(a)
               IN  /\ (Len(mine) = 0) <=> (articles[a].text = <<>>)
                   /\ \A j \in DOMAIN mine :
                          /\ mine[j].article = articles[a].article
                          /\ mine[j].chunk_id
                                 = Lower(Replace(articles[a].article, " ", "_"))
                                       \o <<"_", "p">> \o Str(j)
                          /\ (j > 1 => StartsNumbered(mine[j].text))
                   /\ Join([j \in DOMAIN mine |-> mine[j].text], <<"\n">>)
                          = articles[a].text

\* an Article whose body has a line break inside a chunk and one between chunks
C27_Witness ==
    /\ pc = "chunked"
    /\ \E a \in DOMAIN articles :
           /\ Len(ChunksOfArticle(a)) >= 2
           /\ Cardinality({p \in DOMAIN articles[a].text : articles[a].text[p] = "\n"})
                  > Cardinality(ParagraphBreaks(articles[a].text))

(***************************************************************************)
(* The returned list as a prefix of the ranking.                           *)
(***************************************************************************)
\* C28: for a positive top_k the list returned for a non-blank query is the
\* first min(top_k, q) entries of the descending ranking, q being the number
\* of chunks whose score reaches min_score; during the walk the accepted
\* candidates are a prefix of the ranking, so that after a candidate below
\* min_score none is accepted.
C28_PrefixOfRanking ==
    (NonBlankCall /\ top_k > 0) =>
        LET q == Cardinality({r \in DOMAIN similarities.v :
                                  similarities.v[r] >= min_score})
            m == IF top_k < q THEN top_k ELSE q
        IN  /\ Len(results) <= m
            /\ \A j \in DOMAIN results :
                   /\ similarities.v[ranked_indices.v[j]] >= min_score
                   /\ results[j] = [chunk_id |-> kb.chunks[ranked_indices.v[j]].chunk_id,
                                    article  |-> kb.chunks[ranked_indices.v[j]].article,
                                    title    |-> kb.chunks[ranked_indices.v[j]].title,
                                    chapter  |-> kb.chunks[ranked_indices.v[j]].chapter,
                                    section  |-> kb.chunks[ranked_indices.v[j]].section,
                                    text     |-> kb.chunks[ranked_indices.v[j]].text,
                                    score    |-> similarities.v[ranked_indices.v[j]]]
            /\ \A p \in 1..examined :
                   similarities.v[ranked_indices.v[p]] < min_score => p > Len(results)
            /\ (rpc = "returned" => Len(results) = m)

\* fewer chunks qualify than top_k asks for: the walk went on past the last
\* qualifying chunk, examined one below min_score and returned the q chunks
C28_Witness ==
    /\ rpc = "returned"
    /\ Strip(query) # <<>>
    /\ top_k = 2
    /\ Len(results) = 1
    /\ examined >= 2
    /\ Len(kb.chunks) >= 3
    /\ similarities.v[ranked_indices.v[2]] < min_score

(***************************************************************************)
(* Precedents of an analysis on a shared GDPRJudge.                        *)
(***************************************************************************)
\* what the scenario alone gives: the score of each relevant precedent and
\* the three best of them
ScoresOf(s) ==
    [p \in DOMAIN LoadLegalPrecedents |->
        IF ScoreTable[s][p] < 100 THEN ScoreTable[s][p] ELSE 100]

PrecedentsOf(s) == FindRelevant(ScoresOf(s), s)

\* C30: the precedents of a returned LegalAnalysis and their relevance scores
\* depend on the scenario of that call only, whatever other calls the shared
\* GDPRJudge serves: the scores read through the analysis, and those of the
\* reply of the web front-end, are the scores of this scenario.
C30_PrecedentsOfThisCallOnly ==
    /\ (jpc \in {"returned", "replied"} /\ response.v \in {"json", "text"})
           => /\ precedents = PrecedentsOf(scenario)
              /\ \A j \in DOMAIN precedents :
                     legal_precedents[precedents[j]] = ScoresOf(scenario)[precedents[j]]
    /\ (jpc = "replied")
           => reply = [j \in DOMAIN precedents |->
                          [precedent       |-> precedents[j],
                           relevance_score |-> ScoresOf(scenario)[precedents[j]]]]

(***************************************************************************)
(* Every analyze_gdpr_compliance call returns an analysis.                 *)
(***************************************************************************)
\* the model call or the parsing of its response raised
ModelFailed == response.set /\ response.v \in {"raises", "no_key", "not_text"}

RetrievalFailed == "warning: retrieval failed" \in Range(events)

\* C29: whatever retrieve, the model call and the parsing do, the call goes
\* on from the retrieval to the model call and from there to the return of
\* a LegalAnalysis; the analysis is the fallback exactly when the model call
\* or the parsing raised, and an exception of retrieve only leaves the
\* passage list empty for the prompt and the model call that follow.
C29_AlwaysReturnsAnalysis ==
    /\ [][(jpc = "ready" /\ jpc' # jpc)
              => /\ jpc' = "retrieved"
                 /\ ~analysis'.set
                 /\ ("warning: retrieval failed" \in Range(events')
                        => retrieved_passages' = <<>>)]_vars
    /\ [][(jpc = "retrieved" /\ jpc' # jpc)
              => /\ jpc' = "returned"
                 /\ analysis'.set
                 /\ "generate" \in Range(events')]_vars
    /\ [](Returned
              => /\ analysis.set
                 /\ analysis.v.issue = FallbackIssue <=> ModelFailed)
    /\ []((Returned /\ RetrievalFailed)
              => /\ "prompt: no direct passages" \in Range(events)
                 /\ "generate" \in Range(events)
                 /\ analysis.v.supporting_passages = <<>>)

\* retrieve raised, the model answered with JSON and the analysis returned
\* is the parsed one
C29_Witness ==
    /\ Returned
    /\ RetrievalFailed
    /\ response = Value("json")
    /\ analysis.v.issue = "Test issue"

\* retrieve returned passages, the model call raised and the analysis
\* returned is the fallback with those passages
C29_WitnessFallback ==
    /\ Returned
    /\ "retrieve" \in Range(events)
    /\ response = Value("raises")
    /\ analysis.v.issue = FallbackIssue
    /\ analysis.v.supporting_passages # <<>>

====
